---------------------------- MODULE Spec2Model ----------------------------
(***************************************************************************)
(* Model of pickup_splitter_with_printqty_log.py.                          *)
(*                                                                         *)
(* Several sub-models share this module, each with its own specification: *)
(*   SpecSplit    - process_file, classification and grouping              *)
(*   SpecRebuild  - rebuild_main_sheet_with_data on a template sheet       *)
(*   SpecRun      - process_file, saving of workbooks over several runs    *)
(*   SpecFuzzy    - fuzzy_factory_address and fuzzy_factory_name           *)
(*   SpecLabel    - the carton count of one row of a split workbook        *)
(*   SpecBuild    - build_data_rows_from_file1                             *)
(*   SpecConfig   - load_config_xlsx and find_col                          *)
(*   SpecExport   - export_mid_warehouse_keep_format                       *)
(*   SpecCooldown - _fba_wait_cooldown and the submissions of threads      *)
(*   SpecIds      - the Reference ID column and read_fba_ids_from_split_xlsx *)
(*   SpecUi       - _start, the worker thread and the run button           *)
(*   SpecPoll     - the polling loop of fba_download_labels_for_file       *)
(*   SpecQty      - id_to_qty and the print quantity of each task          *)
(* SpecUiFair and SpecPollFair add the fairness the liveness claims need.  *)
(*                                                                         *)
(* Chinese text of the program is written in pinyin, because strings of    *)
(* this module are ASCII: "gongchang" + "zhifa" is the marker              *)
(* U+5DE5 U+5382 U+76F4 U+53D1 ("factory direct").                         *)
(***************************************************************************)
EXTENDS Integers, Sequences, FiniteSets, TLC

VARIABLES
    \* ---- process_file: classification and grouping ----
    df1,          \* the rows of file 1 below the header, by position
    pc,           \* position inside process_file
    ser,          \* line 1357: the direct-shipment cells, spaces removed
    df_f,         \* line 1358: positions of the factory-direct rows
    df_non,       \* line 1363: positions of the other rows
    groups,       \* line 1387: list(df_f.groupby(supplier_col))
    gi,           \* line 1399: number of groups the loop has finished
    processed,    \* the supplier of each group the loop has finished, in order
    \* ---- rebuild_main_sheet_with_data ----
    ws,           \* the worksheet: the cells it holds, by <<row, column>>
    template,     \* the worksheet as loaded, before the rebuild
    data_rows,    \* the argument data_rows
    rpc,          \* "ready" before the call, "done" after it
    clone_log,    \* what lines 1164/1167 assigned to each data-row cell
    \* ---- process_file: saving the workbooks, over several runs ----
    fs,           \* the files that exist under the output root
    fs0,          \* the files that existed before the first run
    runs,         \* number of calls of process_file so far
    run_pc,       \* position inside the current call
    run_in,       \* the inputs of the current call
    run_i,        \* number of groups the loop has finished
    outputs,      \* the list outputs
    written,      \* the files the current call has saved
    last_save,    \* the latest save: its path and the files that existed then
    \* ---- fuzzy_factory_address and fuzzy_factory_name ----
    fz_keys,      \* the argument keys
    fz_facs,      \* the names of factory_name_to_addr, in its order
    fz_pc,        \* "call" before the call, "done" after it
    fz_addr,      \* what fuzzy_factory_address returned
    fz_name,      \* what fuzzy_factory_name returned
    \* ---- fba_download_labels_for_file: the carton count of a row ----
    lb_cols,      \* what each column of the split workbook was resolved to
    lb_row,       \* the cells of the row
    lb_pc,        \* "row" before the row is read, "done" after it
    lb_qty,       \* the entry of id_to_qty for the row, when there is one
    \* ---- build_data_rows_from_file1: the units per carton ----
    bd_ncols,     \* number of carton-spec columns of file 1
    bd_df,        \* the rows of the group
    bd_cfg,       \* cfg_carton_map
    bd_pc,        \* "call" before the call, "done" after it
    bd_rows,      \* the units per carton of the rows returned
    \* ---- find_col and load_config_xlsx ----
    cf_has_sheet, \* whether the configuration workbook has the sheet "SKU xinxi"
    cf_columns,   \* the column names of the table
    cf_candidates,\* the argument candidates of find_col
    cf_pc,        \* "call", then "found" (find_col) or "loaded" (load_config_xlsx)
    cf_found,     \* what find_col returned
    cf_load,      \* whether load_config_xlsx raised, and its sku_col
    \* ---- export_mid_warehouse_keep_format ----
    ex_headers,   \* the header row of the sheet of file 1
    ex_rows,      \* the rows below the header row
    ex_pc,        \* "summary" before line 1478, "done" after the try block
    ex_out,       \* the mode of the export and the rows it wrote
    \* ---- _fba_wait_cooldown and the submission that follows it ----
    cd_now,       \* what time.time() returns, in whole seconds
    FBA_LAST_PRINT_TS, \* line 65: the module-level _FBA_LAST_PRINT_TS
    FBA_PRINT_LOCK,    \* line 66: the thread that holds the lock, 0 for none
    cd_cooldown,  \* the argument cooldown_sec of every caller
    cd_thread,    \* per thread: position, end_ts, end of its sleep, time of its POST
    \* ---- the identifier columns, from file 1 to read_fba_ids_from_split_xlsx ----
    id_columns,   \* the column names of the rows of one supplier group
    id_rows,      \* the rows of the group, a cell per column
    id_headers,   \* row 1 of the template sheet
    id_pc,        \* "build", then "saved", then "read"
    id_sheet,     \* the rows of the saved sheet below row 1
    id_ids,       \* what read_fba_ids_from_split_xlsx returned
    \* ---- App._start and its worker thread ----
    run_btn,      \* the state of the run button: "normal" or "disabled"
    ui_threads,   \* the worker threads started so far: position, outcome, files left
    ui_after,     \* the callbacks queued with self.after(0, ...), oldest first
    ui_clicks,    \* clicks on the run button that invoked _start
    \* ---- fba_download_labels_for_file: the download list and the polling loop ----
    pl_pc,        \* position: "baseline", "loop", "request", "sleep", "download" or the exception raised
    pl_now,       \* time.time(), in seconds since the submission
    pl_args,      \* the arguments poll_interval_sec and poll_timeout_sec
    pl_deadline,  \* line 501
    base_ids,     \* line 498
    pl_rows,      \* line 508: the rows of the list in which the archive was picked
    picked,       \* line 502 and 523
    \* ---- fba_download_labels_for_file: the print quantity of each task ----
    pq_pc,        \* position: "rows", "grid", "submitted", "no_ids" or "RuntimeError"
    pq_df,        \* whether lines 305 and 349 let the mapping be built
    pq_log,       \* the rows read so far: the key of the identifier and the carton count resolved
    id_to_qty,    \* line 304
    tasks         \* line 434

splitVars == <<df1, pc, ser, df_f, df_non, groups, gi, processed>>
rebuildVars == <<ws, template, data_rows, rpc, clone_log>>
fuzzyVars == <<fz_keys, fz_facs, fz_pc, fz_addr, fz_name>>
labelVars == <<lb_cols, lb_row, lb_pc, lb_qty>>
buildVars == <<bd_ncols, bd_df, bd_cfg, bd_pc, bd_rows>>
configVars == <<cf_has_sheet, cf_columns, cf_candidates, cf_pc, cf_found, cf_load>>
exportVars == <<ex_headers, ex_rows, ex_pc, ex_out>>
cooldownVars == <<cd_now, FBA_LAST_PRINT_TS, FBA_PRINT_LOCK, cd_cooldown, cd_thread>>
idVars == <<id_columns, id_rows, id_headers, id_pc, id_sheet, id_ids>>
uiVars == <<run_btn, ui_threads, ui_after, ui_clicks>>
pollVars == <<pl_pc, pl_now, pl_args, pl_deadline, base_ids, pl_rows, picked>>
qtyVars == <<pq_pc, pq_df, pq_log, id_to_qty, tasks>>
runVars == <<fs, fs0, runs, run_pc, run_in, run_i, outputs, written, last_save>>

-----------------------------------------------------------------------------
(* Bounds *)
MaxRows == 3        \* rows of file 1
MaxSupplier == 2    \* distinct supplier names
MaxDataRows == 2    \* rows in data_rows
MaxTmplRows == 5    \* rows of the template sheet
MaxGroups == 2      \* supplier groups of one run
MaxRuns == 2        \* calls of process_file

-----------------------------------------------------------------------------
(* Characters and cells of the direct-shipment-type column.                *)
(* A cell is a sequence of text units. "gongchang" and "zhifa" are the two *)
(* halves of the marker; SP is U+0020, IDSP is U+3000, TAB is U+0009.      *)
SP == "SP"
IDSP == "IDSP"
TAB == "TAB"
Marker == <<"gongchang", "zhifa">>

\* cells of the direct-shipment-type column: the marker, the marker with
\* blanks of each kind inside it, and the mid-warehouse value
DirectCells ==
    { Marker,
      <<"gongchang", SP, "zhifa">>,
      <<"gongchang", IDSP, SP, "zhifa">>,
      <<"gongchang", TAB, "zhifa">>,
      <<"zhongcang">> }

\* cells of the supplier column: NaN is the empty cell as read_excel gives it;
\* 1..MaxSupplier are supplier names, numbered in their sort order
NaN == 0
SupplierCells == {NaN} \cup 1..MaxSupplier

\* the rows read_excel gives, by position
Rows == [direct : DirectCells, supplier : SupplierCells]

\* a DataFrame is a sequence of rows, each with its index label
Frame(rows) ==
    [i \in 1..Len(rows) |->
        [index |-> i, direct |-> rows[i].direct, supplier |-> rows[i].supplier]]

Range(s) == {s[i] : i \in 1..Len(s)}

-----------------------------------------------------------------------------
(* pandas helpers used by process_file *)

\* Series.str.replace(ch, ""): every occurrence of one character is removed
str_replace(s, ch) == SelectSeq(s, LAMBDA c : c # ch)

\* Series.str.contains(pat): pat occurs as a contiguous run
str_contains(s, pat) ==
    \E i \in 1..(Len(s) - Len(pat) + 1) : SubSeq(s, i, i + Len(pat) - 1) = pat

\* a plausible slip: only the ASCII space is removed
strip_spaces_ascii_only(cell) == str_replace(cell, SP)

\* line 1357: .str.replace(" ", "").str.replace(U+3000, "")
strip_spaces(cell) == str_replace(str_replace(cell, SP), IDSP)

\* the ascending enumeration of a finite set of integers
RECURSIVE sorted_seq(_)
sorted_seq(S) ==
    IF S = {} THEN <<>>
    ELSE LET m == CHOOSE x \in S : \A y \in S : x <= y
         IN  <<m>> \o sorted_seq(S \ {m})

\* the distinct values of a sequence in order of first appearance
RECURSIVE first_seen(_)
first_seen(s) ==
    IF s = <<>> THEN <<>>
    ELSE LET init == first_seen(SubSeq(s, 1, Len(s) - 1))
             x == s[Len(s)]
         IN  IF x \in Range(init) THEN init ELSE Append(init, x)

\* a plausible slip: groupby(..., sort=False), keys in order of first appearance
groupby_unsorted(df) ==
    LET keys == SelectSeq(first_seen([i \in 1..Len(df) |-> df[i].supplier]),
                          LAMBDA k : k # NaN)
    IN  [j \in 1..Len(keys) |->
            [supplier |-> keys[j],
             rows |-> SelectSeq(df, LAMBDA r : r.supplier = keys[j])]]

\* DataFrame.groupby(supplier_col) with the defaults sort=True, dropna=True:
\* one group per distinct non-NaN key, keys ascending, rows in source order
groupby(df) ==
    LET keys == sorted_seq({r.supplier : r \in Range(df)} \ {NaN})
    IN  [j \in 1..Len(keys) |->
            [supplier |-> keys[j],
             rows |-> SelectSeq(df, LAMBDA r : r.supplier = keys[j])]]

-----------------------------------------------------------------------------
(* process_file, lines 1352-1399 *)

InitSplitVars ==
    /\ pc = "start"
    /\ ser = <<>>
    /\ df_f = <<>>
    /\ df_non = <<>>
    /\ groups = <<>>
    /\ gi = 0
    /\ processed = <<>>

\* lines 1357-1363: the two partitions; an empty df_f returns [] at line 1360,
\* before df_non is computed
Classify ==
    /\ pc = "start"
    /\ LET s == [i \in 1..Len(df1) |-> strip_spaces(df1[i].direct)]
           f == SelectSeq(Frame(df1), LAMBDA r : str_contains(s[r.index], Marker))
           non == SelectSeq(Frame(df1), LAMBDA r : ~str_contains(s[r.index], Marker))
       IN  /\ ser' = s
           /\ df_f' = f
           /\ df_non' = IF f = <<>> THEN <<>> ELSE non
           /\ pc' = IF f = <<>> THEN "returned" ELSE "classified"
    /\ UNCHANGED <<df1, groups, gi, processed>>

\* line 1387: groups = list(df_f.groupby(supplier_col))
Group ==
    /\ pc = "classified"
    /\ groups' = groupby(df_f)
    /\ pc' = "grouped"
    /\ UNCHANGED <<df1, ser, df_f, df_non, gi, processed>>

\* lines 1399-1476: one pass of the loop over the groups
ProcessGroup ==
    /\ pc = "grouped"
    /\ gi < Len(groups)
    /\ gi' = gi + 1
    /\ processed' = Append(processed, groups[gi + 1].supplier)
    /\ UNCHANGED <<df1, pc, ser, df_f, df_non, groups>>

\* line 1522: return outputs
Return ==
    /\ pc = "grouped"
    /\ gi = Len(groups)
    /\ pc' = "returned"
    /\ UNCHANGED <<df1, ser, df_f, df_non, groups, gi, processed>>

-----------------------------------------------------------------------------
(* Claims about classification and grouping *)

\* the cell holds the two halves of the marker with nothing but characters
\* of the set blanks between them
MarkerModulo(cell, blanks) ==
    \E p \in 1..Len(cell), q \in 1..Len(cell) :
        /\ p < q
        /\ cell[p] = Marker[1]
        /\ cell[q] = Marker[2]
        /\ \A k \in (p + 1)..(q - 1) : cell[k] \in blanks

Classified == pc # "start"

\* row i of file 1 is in df_f, is in df_non
InF(i) == \E k \in 1..Len(df_f) : df_f[k].index = i
InNon(i) == \E k \in 1..Len(df_non) : df_non[k].index = i

\* C1 as stated: a row is factory-direct iff its direct-shipment-type cell
\* holds the marker once every whitespace character (space, ideographic
\* space, tab) is removed, and once df_non is computed each row is in
\* exactly one of the two partitions.
C1_AllWhitespace ==
    Classified =>
        \A i \in 1..Len(df1) :
            /\ InF(i) <=> MarkerModulo(df1[i].direct, {SP, IDSP, TAB})
            /\ df_f # <<>> => (InF(i) <=> ~InNon(i))

\* C1 amended: a row is factory-direct iff its direct-shipment-type cell
\* holds the marker once the ASCII spaces and the ideographic spaces are
\* removed (no other whitespace is removed), and once df_non is computed
\* each row is in exactly one of the two partitions.
C1_SpacesOnly ==
    Classified =>
        \A i \in 1..Len(df1) :
            /\ InF(i) <=> MarkerModulo(df1[i].direct, {SP, IDSP})
            /\ df_f # <<>> => (InF(i) <=> ~InNon(i))

\* a classified table with a factory-direct row whose marker holds both kinds
\* of space, a row whose marker holds a tab, and so both partitions non-empty
C1_Witness ==
    /\ pc = "classified"
    /\ \E r \in Range(df_f) : IDSP \in Range(r.direct) /\ SP \in Range(r.direct)
    /\ \E r \in Range(df_non) : TAB \in Range(r.direct)

GroupsOf(r) == {j \in 1..Len(groups) : r \in Range(groups[j].rows)}

\* C2: the groups cover the factory-direct partition exactly: every
\* factory-direct row, whatever its supplier cell holds, is in exactly one
\* group, and no other row is in any group.
C2_GroupsCoverFactoryDirect ==
    pc = "grouped" =>
        /\ \A r \in Range(df_f) : Cardinality(GroupsOf(r)) = 1
        /\ \A r \in Range(Frame(df1)) : r \notin Range(df_f) => GroupsOf(r) = {}

\* the position in df_f of the first row of a supplier
FirstAt(k) == CHOOSE i \in 1..Len(df_f) :
                /\ df_f[i].supplier = k
                /\ \A j \in 1..(i - 1) : df_f[j].supplier # k

RowOrderKept ==
    \A j \in 1..Len(groups) :
        \A a, b \in 1..Len(groups[j].rows) :
            a < b => groups[j].rows[a].index < groups[j].rows[b].index

ProcessedInGroupOrder ==
    /\ gi = Len(processed)
    /\ \A j \in 1..gi : processed[j] = groups[j].supplier

\* C3 as stated: the groups are processed in the order in which each supplier
\* value is first met among the factory-direct rows, and the rows of a group
\* keep their order.
C3_FirstSeenOrder ==
    pc \in {"grouped", "returned"} =>
        /\ \A j, k \in 1..Len(groups) :
              j < k => FirstAt(groups[j].supplier) < FirstAt(groups[k].supplier)
        /\ RowOrderKept
        /\ ProcessedInGroupOrder

\* C3 amended: the groups are processed in ascending order of the supplier
\* value (the sort order of groupby), whatever the order of first appearance,
\* and the rows of a group keep their order.
C3_SortedOrder ==
    pc \in {"grouped", "returned"} =>
        /\ \A j, k \in 1..Len(groups) :
              j < k => groups[j].supplier < groups[k].supplier
        /\ RowOrderKept
        /\ ProcessedInGroupOrder

\* all groups processed, two suppliers first met in descending order, and a
\* group of two rows
C3_Witness ==
    /\ pc = "returned"
    /\ Len(processed) >= 2
    /\ FirstAt(groups[2].supplier) < FirstAt(groups[1].supplier)
    /\ \E j \in 1..Len(groups) : Len(groups[j].rows) >= 2

-----------------------------------------------------------------------------
(* Worksheets (openpyxl).  A worksheet is its dictionary _cells: a function *)
(* from the <<row, column>> pairs that hold a cell to the cell.  A cell has *)
(* a value and a style.  A value is None, a string, a value handed in by    *)
(* data_rows, or a formula; all are written as a tagged sequence of tokens. *)

\* column letters, in order: Letters[i] is get_column_letter(i)
Letters == <<"A", "B", "C", "D", "E", "F", "G", "H", "I", "J", "K", "L",
             "M", "N", "O", "P", "Q", "R", "S", "T", "U", "V", "W", "X">>

get_column_letter(i) == Letters[i]
column_index_from_string(l) == CHOOSE i \in 1..Len(Letters) : Letters[i] = l

\* tokens of a formula: plain text (functions, operators, sheet prefixes),
\* a cell reference, an end of a whole-row range, an end of a whole-column range
Text(t) == [kind |-> "text", text |-> t, cabs |-> FALSE, col |-> "", rabs |-> FALSE, row |-> 0]
CellRef(ca, c, ra, r) == [kind |-> "cell", text |-> "", cabs |-> ca, col |-> c, rabs |-> ra, row |-> r]
RowRef(ra, r) == [kind |-> "rowref", text |-> "", cabs |-> FALSE, col |-> "", rabs |-> ra, row |-> r]
ColRef(ca, c) == [kind |-> "colref", text |-> "", cabs |-> ca, col |-> c, rabs |-> FALSE, row |-> 0]

None == [t |-> "none", toks |-> <<>>]
Str(x) == [t |-> "str", toks |-> <<Text(x)>>]
Formula(toks) == [t |-> "formula", toks |-> toks]
\* the value data_rows[i] holds under a key (i = 0: pickup_date_cell)
DataVal(i, key) == [t |-> "data", toks |-> <<[Text(key) EXCEPT !.row = i]>>]

\* =VLOOKUP($E2,match!$A:$F,3,0)
F_Vlookup ==
    Formula(<<Text("=VLOOKUP("), CellRef(TRUE, "E", FALSE, 2), Text(",match!"),
              ColRef(TRUE, "A"), Text(":"), ColRef(TRUE, "F"), Text(",3,0)")>>)
\* =G2*H$2+SUM($A$1:B3)+SUM(2:$4)
F_Mixed ==
    Formula(<<Text("="), CellRef(FALSE, "G", FALSE, 2), Text("*"),
              CellRef(FALSE, "H", TRUE, 2), Text("+SUM("),
              CellRef(TRUE, "A", TRUE, 1), Text(":"), CellRef(FALSE, "B", FALSE, 3),
              Text(")+SUM("), RowRef(FALSE, 2), Text(":"), RowRef(TRUE, 4), Text(")")>>)
\* =SUM(G2:G3), the total the template carries
F_OldSum ==
    Formula(<<Text("=SUM("), CellRef(FALSE, "G", FALSE, 2), Text(":"),
              CellRef(FALSE, "G", FALSE, 3), Text(")")>>)

StyleOf(tag) ==
    [font |-> tag, border |-> tag, fill |-> tag, number_format |-> tag,
     protection |-> tag, alignment |-> tag]
DefaultStyle == StyleOf("default")
has_style(cell) == cell.style # DefaultStyle

EmptyCell == [value |-> None, style |-> DefaultStyle]

RowsOf(sheet) == {p[1] : p \in DOMAIN sheet}
ColsOf(sheet) == {p[2] : p \in DOMAIN sheet}
Max(S) == CHOOSE x \in S : \A y \in S : y <= x
Min(S) == CHOOSE x \in S : \A y \in S : x <= y

\* Worksheet.max_row, max_column, min_column: 1 for a sheet without cells
max_row(sheet) == IF DOMAIN sheet = {} THEN 1 ELSE Max(RowsOf(sheet))
max_column(sheet) == IF DOMAIN sheet = {} THEN 1 ELSE Max(ColsOf(sheet))
min_column(sheet) == IF DOMAIN sheet = {} THEN 1 ELSE Min(ColsOf(sheet))

\* Worksheet.cell(r, c) for every <<r, c>> of a set: a missing cell is created
with_cells(sheet, coords) ==
    [p \in DOMAIN sheet \cup coords |-> IF p \in DOMAIN sheet THEN sheet[p] ELSE EmptyCell]

\* Worksheet._move_cells(min_row=m, offset=off, row_or_col="row")
move_cells(sheet, m, off) ==
    LET stay == {p \in DOMAIN sheet : p[1] < m}
        moved == {<<p[1] + off, p[2]>> : p \in {q \in DOMAIN sheet : q[1] >= m}}
    IN  [p \in stay \cup moved |->
            IF p \in moved THEN sheet[<<p[1] - off, p[2]>>] ELSE sheet[p]]

\* Worksheet.insert_rows(idx, amount)
insert_rows(sheet, idx, amount) == move_cells(sheet, idx, amount)

\* Worksheet.delete_rows(idx, amount): the rows below move up, then the
\* rows of the gutter are deleted
delete_rows(sheet, idx, amount) ==
    LET mx == max_row(sheet)
        lo == IF mx + 1 - amount > idx THEN mx + 1 - amount ELSE idx
        hi == IF idx + amount < mx THEN idx + amount ELSE mx
        up == move_cells(sheet, idx + amount, 0 - amount)
        gone == {p \in DOMAIN up :
                    /\ p[1] \in lo..hi
                    /\ p[2] \in min_column(up)..max_column(up)}
    IN  [p \in DOMAIN up \ gone |-> up[p]]

-----------------------------------------------------------------------------
(* openpyxl.formula.translate.Translator, as line 1164 uses it *)

\* a plausible slip: the $ of an absolute row is ignored
translate_row_ignoring_abs(tok, rdelta) == [tok EXCEPT !.row = tok.row + rdelta]

\* Translator.translate_row: a row without $ moves by rdelta
translate_row(tok, rdelta) ==
    IF tok.rabs THEN tok ELSE [tok EXCEPT !.row = tok.row + rdelta]

\* Translator.translate_col: a column without $ moves by cdelta
translate_col(tok, cdelta) ==
    IF tok.cabs THEN tok
    ELSE [tok EXCEPT !.col = get_column_letter(column_index_from_string(tok.col) + cdelta)]

\* Translator.translate_range, per operand of a formula
translate_range(tok, rdelta, cdelta) ==
    CASE tok.kind = "rowref" -> translate_row(tok, rdelta)
      [] tok.kind = "colref" -> translate_col(tok, cdelta)
      [] tok.kind = "cell" -> translate_row(translate_col(tok, cdelta), rdelta)
      [] OTHER -> tok

\* Translator(f, origin=<<r0, c0>>).translate_formula(<<r, c>>)
translate_formula(f, origin, dest) ==
    Formula([k \in 1..Len(f.toks) |->
                translate_range(f.toks[k], dest[1] - origin[1], dest[2] - origin[2])])

-----------------------------------------------------------------------------
(* rebuild_main_sheet_with_data, lines 1113-1212 *)

template_data_row == 2
template_total_row == 4

\* the keys of the setv calls, lines 1173-1187, in order
ValueColumns ==
    <<"yujitihuoriqi", "xiaoshoufuzeren", "zhanghao", "FNSKU / UPC", "SKU",
      "chanpinmingcheng", "fahuoshuliang", "danxiangshuliang", "wuliuqudao",
      "fahuocangku", "FBA ID", "Reference ID", "daohuocangku", "cangkudaima",
      "gongchangdizhi">>

\* line 1205
SumColumns == <<"G", "J", "V", "W", "X">>

\* line 32 binds the name copy to the module copy, so the calls copy(...) of
\* lines 1071-1076 raise TypeError: a module is not callable
copy_is_callable == FALSE

\* _copy_cell_style: the style dst has afterwards.  The first assignment
\* raises inside the try, and the except clause swallows it
copy_cell_style(src, dst) ==
    IF ~has_style(src) THEN dst.style
    ELSE IF ~copy_is_callable THEN dst.style
    ELSE [font |-> src.style.font, border |-> src.style.border,
          fill |-> src.style.fill, number_format |-> src.style.number_format,
          protection |-> src.style.protection, alignment |-> src.style.alignment]

\* a plausible slip: the count forgets the row idx itself
delete_amount_short(last) == last - template_data_row

\* line 1136: the number of rows deleted from template_data_row on
delete_amount(last) == last - template_data_row + 1

\* a plausible slip: the range runs to the total row itself
set_sum_through_total(col_letter, start_row, n) ==
    Formula(<<Text("=SUM("), CellRef(FALSE, col_letter, FALSE, start_row), Text(":"),
              CellRef(FALSE, col_letter, FALSE, start_row + n), Text(")")>>)

\* line 1203: =SUM({col}{start_row}:{col}{start_row + n - 1})
set_sum(col_letter, start_row, n) ==
    Formula(<<Text("=SUM("), CellRef(FALSE, col_letter, FALSE, start_row), Text(":"),
              CellRef(FALSE, col_letter, FALSE, start_row + n - 1), Text(")")>>)

\* line 1147: header text -> column; a later column with the same header wins
col_map(sheet, maxc) ==
    LET named == {c \in 1..maxc : sheet[<<1, c>>].value.t # "none"}
        names == {sheet[<<1, c>>].value.toks[1].text : c \in named}
    IN  [h \in names |-> Max({c \in named : sheet[<<1, c>>].value.toks[1].text = h})]

\* lines 1163-1167: the value the clone step gives the cell <<r, c>>
clone_value(src, c, r) ==
    IF src.value.t = "formula"
    THEN translate_formula(src.value, <<template_data_row, c>>, <<r, c>>)
    ELSE None

\* lines 1173-1187: the value of <<r, c>> after the setv calls of row r
setv_value(cmap, rows, c, r, cloned) ==
    LET hits == {k \in 1..Len(ValueColumns) :
                    ValueColumns[k] \in DOMAIN cmap /\ cmap[ValueColumns[k]] = c}
    IN  IF hits = {} THEN cloned
        ELSE LET key == ValueColumns[Max(hits)]
             IN  IF key = ValueColumns[1] THEN DataVal(0, key)
                 ELSE rows[r - template_data_row + 1][key]

\* the whole call
rebuild_main_sheet_with_data(sheet, rows) ==
    LET maxc == max_column(sheet)
        \* lines 1127-1128: ws.cell creates the cells it does not find
        s1 == with_cells(sheet, {template_data_row, template_total_row} \X (1..maxc))
        tmpl_cells == [c \in 1..maxc |-> s1[<<template_data_row, c>>]]
        total_cells == [c \in 1..maxc |-> s1[<<template_total_row, c>>]]
        \* lines 1134-1136
        last == max_row(s1)
        s2 == IF last >= template_data_row
              THEN delete_rows(s1, template_data_row, delete_amount(last))
              ELSE s1
        start_row == template_data_row
        n == Len(rows)
        \* line 1144
        s3 == insert_rows(s2, start_row, n + 1)
        \* line 1146
        s4 == with_cells(s3, {1} \X (1..maxc))
        cmap == col_map(s4, maxc)
        total_row == start_row + n
        sum_idx == {column_index_from_string(SumColumns[k]) : k \in 1..Len(SumColumns)}
        data_at == (start_row..(total_row - 1)) \X (1..maxc)
        total_at == {total_row} \X ((1..maxc) \cup sum_idx)
        s5 == with_cells(s4, data_at \cup total_at)
        final ==
            [p \in DOMAIN s5 |->
                IF p \in data_at
                THEN [value |-> setv_value(cmap, rows, p[2], p[1],
                                           clone_value(tmpl_cells[p[2]], p[2], p[1])),
                      style |-> copy_cell_style(tmpl_cells[p[2]], s5[p])]
                ELSE IF p \in total_at
                THEN [value |-> IF p[2] \in sum_idx
                                THEN set_sum(get_column_letter(p[2]), start_row, n)
                                ELSE None,
                      style |-> IF p[2] \in 1..maxc
                                THEN copy_cell_style(total_cells[p[2]], s5[p])
                                ELSE s5[p].style]
                ELSE s5[p]]
        log == [p \in data_at |-> clone_value(tmpl_cells[p[2]], p[2], p[1])]
    IN  IF n <= 0 THEN [sheet |-> s2, log |-> <<>>]
        ELSE [sheet |-> final, log |-> log]

\* process_file, lines 1441-1447: the call on the sheet of the template
Rebuild ==
    /\ rpc = "ready"
    /\ LET res == rebuild_main_sheet_with_data(ws, data_rows)
       IN  /\ ws' = res.sheet
           /\ clone_log' = res.log
    /\ rpc' = "done"
    /\ UNCHANGED <<template, data_rows>>

-----------------------------------------------------------------------------
(* Template sheets and data rows the rebuild is run on *)

\* the columns of the template whose header, row-2 value and style vary,
\* and column G, which holds a formula in row 2 and the old total in row 4
VarCols == {1, 2}
TmplCols == VarCols \cup {column_index_from_string("G")}
Headers == {"SKU", "chang"}
Row2Values == {None, Str("sample"), F_Vlookup, F_Mixed}

TemplateSheet(hdr, val, sty, len) ==
    LET G == column_index_from_string("G")
        coords == {p \in (1..len) \X TmplCols : p[1] <= 4 \/ p[2] = 1}
    IN  [p \in coords |->
            CASE p[1] = 1 ->
                    [value |-> Str(IF p[2] = G THEN "zongxiangshu" ELSE hdr[p[2]]),
                     style |-> StyleOf("header")]
              [] p[1] \in {2, 3} ->
                    [value |-> IF p[2] = G THEN F_Mixed
                               ELSE IF p[1] = 2 THEN val[p[2]] ELSE Str("sample"),
                     style |-> IF sty[p[2]] THEN StyleOf("data") ELSE DefaultStyle]
              [] p[1] = 4 ->
                    [value |-> IF p[2] = G THEN F_OldSum
                               ELSE IF p[2] = 1 THEN Str("heji") ELSE None,
                     style |-> IF sty[p[2]] THEN StyleOf("total") ELSE DefaultStyle]
              [] OTHER -> [value |-> Str("note"), style |-> DefaultStyle]]

Templates ==
    {TemplateSheet(hdr, val, sty, len) :
        hdr \in [VarCols -> Headers], val \in [VarCols -> Row2Values],
        sty \in [TmplCols -> BOOLEAN], len \in 1..MaxTmplRows}

\* build_data_rows_from_file1, lines 1269-1284: one dict per row
DataRows(n) ==
    [i \in 1..n |->
        [key \in {ValueColumns[k] : k \in 2..Len(ValueColumns)} |-> DataVal(i, key)]]

InitRebuild ==
    /\ template \in Templates
    /\ ws = template
    /\ data_rows \in {DataRows(n) : n \in 0..MaxDataRows}
    /\ rpc = "ready"
    /\ clone_log = <<>>

InitRebuildIdle ==
    /\ template = <<>>
    /\ ws = <<>>
    /\ data_rows = <<>>
    /\ rpc = "idle"
    /\ clone_log = <<>>

InitSplitIdle ==
    /\ df1 = <<>>
    /\ pc = "idle"
    /\ ser = <<>>
    /\ df_f = <<>>
    /\ df_non = <<>>
    /\ groups = <<>>
    /\ gi = 0
    /\ processed = <<>>

-----------------------------------------------------------------------------
(* Claims about rebuild_main_sheet_with_data *)

Rebuilt == rpc = "done"
NData == Len(data_rows)
TmplMaxCol == max_column(template)

\* the cell of the template at <<r, c>>, as ws.cell(r, c) gives it
TmplCell(r, c) == IF <<r, c>> \in DOMAIN template THEN template[<<r, c>>] ELSE EmptyCell

\* the cell of the rebuilt sheet at <<r, c>>, as ws.cell(r, c) gives it
WsCell(r, c) == IF <<r, c>> \in DOMAIN ws THEN ws[<<r, c>>] ELSE EmptyCell

\* the key whose values the call writes into column c of the data rows, if
\* there is one: the header of c is a key of a setv call and no later column
\* has the same header
WrittenKey(c) ==
    {ValueColumns[k] : k \in {j \in 1..Len(ValueColumns) :
        /\ TmplCell(1, c).value = Str(ValueColumns[j])
        /\ \A d \in (c + 1)..TmplMaxCol : TmplCell(1, d).value # Str(ValueColumns[j])}}

IsTotalRow(r) ==
    /\ <<r, 7>> \in DOMAIN ws
    /\ ws[<<r, 7>>].value.t = "formula"
    /\ ws[<<r, 7>>].value.toks[1] = Text("=SUM(")

\* row r of the sheet holds the i-th element of data_rows
IsDataRow(r, i) ==
    \A c \in 1..TmplMaxCol :
        /\ <<r, c>> \in DOMAIN ws
        /\ \A key \in WrittenKey(c) : ws[<<r, c>>].value = data_rows[i][key]

\* C4: after the rebuild with N data rows, rows 2..N+1 are the N data rows in
\* order, row N+2 is the only total row and no row follows it; with N = 0 the
\* sheet holds only the header row.  The header row is as in the template.
C4_RowLayout ==
    Rebuilt =>
        /\ \A c \in 1..TmplMaxCol : WsCell(1, c) = TmplCell(1, c)
        /\ IF NData = 0 THEN RowsOf(ws) = {1}
           ELSE /\ RowsOf(ws) = 1..(NData + 2)
                /\ \A i \in 1..NData : IsDataRow(i + 1, i)
                /\ \A r \in RowsOf(ws) : IsTotalRow(r) <=> r = NData + 2

\* a rebuild with two data rows of a template longer than its total row whose
\* last column named SKU received the values, and one with no data rows
C4_Witness ==
    /\ Rebuilt
    /\ max_row(template) > template_total_row
    /\ \/ NData = 0
       \/ /\ NData = 2
          /\ \E c \in 1..TmplMaxCol :
                /\ WrittenKey(c) = {"SKU"}
                /\ ws[<<3, c>>].value = DataVal(2, "SKU")

\* the formula f with every row reference that carries no $ moved down by d
\* rows, and nothing else changed
Shifted(f, d) ==
    Formula([k \in 1..Len(f.toks) |->
        IF f.toks[k].kind \in {"cell", "rowref"} /\ ~f.toks[k].rabs
        THEN [f.toks[k] EXCEPT !.row = @ + d]
        ELSE f.toks[k]])

FormulaCols == {c \in 1..TmplMaxCol : TmplCell(template_data_row, c).value.t = "formula"}

\* C5: a column whose template data-row cell holds a formula is never
\* overwritten by the value-writing step: after the rebuild every data-row
\* cell of such a column holds the translated formula, also when the header of
\* the column is one of the names the value-writing step writes.
C5_FormulaColumnsKept ==
    Rebuilt =>
        \A c \in FormulaCols : \A r \in 2..(NData + 1) :
            ws[<<r, c>>].value = Shifted(TmplCell(template_data_row, c).value, r - 2)

SumLetterAt == [c \in {7, 10, 22, 23, 24} |->
                  CASE c = 7 -> "G" [] c = 10 -> "J" [] c = 22 -> "V"
                    [] c = 23 -> "W" [] OTHER -> "X"]

\* C7: after the rebuild with N >= 1 data rows, the total row holds
\* =SUM(col2:col(N+1)) in each of the columns G, J, V, W, X, and every other
\* cell of the total row is empty.
C7_TotalRowSums ==
    (Rebuilt /\ NData >= 1) =>
        /\ \A c \in DOMAIN SumLetterAt :
              /\ <<NData + 2, c>> \in DOMAIN ws
              /\ ws[<<NData + 2, c>>].value =
                    Formula(<<Text("=SUM("), CellRef(FALSE, SumLetterAt[c], FALSE, 2),
                              Text(":"), CellRef(FALSE, SumLetterAt[c], FALSE, NData + 1),
                              Text(")")>>)
        /\ \A p \in DOMAIN ws :
              (p[1] = NData + 2 /\ p[2] \notin DOMAIN SumLetterAt) => ws[p].value = None

\* a rebuild with two data rows of a template whose total row held text and
\* the old total
C7_Witness ==
    /\ Rebuilt
    /\ NData = 2
    /\ TmplCell(template_total_row, 1).value = Str("heji")
    /\ TmplCell(template_total_row, 7).value = F_OldSum
    /\ ws[<<4, 1>>].value = None
    /\ ws[<<4, 7>>].value.t = "formula"

\* C8: after the rebuild every data-row cell carries the style of the template
\* data-row cell of its column, and every total-row cell the style of the
\* template total-row cell of its column.
C8_StylesCopied ==
    Rebuilt =>
        \A c \in 1..TmplMaxCol :
            /\ \A r \in 2..(NData + 1) :
                  ws[<<r, c>>].style = TmplCell(template_data_row, c).style
            /\ NData >= 1 =>
                  ws[<<NData + 2, c>>].style = TmplCell(template_total_row, c).style

-----------------------------------------------------------------------------
(* process_file, lines 1399-1522: the workbooks it saves.                   *)
(* A path is a folder, a file name without ".xlsx" and the number k of the  *)
(* suffix "(k)"; k = 0 is the name without suffix.  The runs share the      *)
(* output root, the pickup date, the tags and the name of the user, so the  *)
(* file name of a group depends on its supplier short name only.            *)

Path(folder, name, k) == [folder |-> folder, name |-> name, k |-> k]

ShortNames == {"s1", "s2"}
out_base == "zhifaMMDD"
factory_folder == "zhifaMMDD/factory"
sum_name == "zhongcangYYYYMMDD"

\* a plausible slip: one test instead of the loop
unique_path_single_test(files, folder, name) ==
    IF Path(folder, name, 0) \notin files THEN Path(folder, name, 0)
    ELSE Path(folder, name, 1)

\* lines 1463-1467 and 1506-1510: the first of name, name(1), name(2), ...
\* that os.path.exists does not find
unique_path(files, folder, name) ==
    LET taken == {p.k : p \in {q \in files : q.folder = folder /\ q.name = name}}
    IN  Path(folder, name, Min((0..(Cardinality(files) + 1)) \ taken))

\* the inputs of a call: whether parse_date accepts the pickup date (line
\* 1341), whether find_col finds the two required columns (1350-1355), whether
\* df_f is empty, whether load_config_xlsx accepts the configuration file
\* (1376), whether resolve_template_path finds a template (1380), the supplier
\* short name of each group, whether df_non is empty after the channel filter,
\* the option split_supplier_folder, and whether the template has the sheet of
\* line 1437, and the first group, if any, whose pass raises for another
\* reason (fail_at, 0 for none).  Inputs that a call never reads, because it
\* has left before, are kept at one value.  The set is written as an image
\* so that it is enumerated once.
RunInputs ==
    {r : r \in
    {in \in [date_ok : BOOLEAN,
             has_columns : BOOLEAN,
             has_direct : BOOLEAN,
             cfg_ok : BOOLEAN,
             template_ok : BOOLEAN,
             groups : UNION {[1..n -> ShortNames] : n \in 0..MaxGroups},
             has_non : BOOLEAN,
             split_supplier_folder : BOOLEAN,
             template_has_sheet : BOOLEAN,
             fail_at : 0..MaxGroups] :
        /\ in.has_direct \/ (in.groups = <<>> /\ ~in.has_non)
        /\ in.fail_at <= Len(in.groups)
        /\ ~in.template_has_sheet => in.fail_at = 0
        /\ in.fail_at # 0 => ~in.has_non
        /\ in.fail_at = 1 => ~in.split_supplier_folder
        /\ in.fail_at # 0 =>
              \A j \in (in.fail_at + 1)..Len(in.groups) : in.groups[j] = "s1"
        /\ in.has_direct => in.has_columns
        /\ (~in.date_ok \/ ~in.has_columns) =>
              /\ in.cfg_ok /\ in.template_ok /\ ~in.has_direct
              /\ ~in.split_supplier_folder /\ in.template_has_sheet
        /\ (in.has_direct /\ ~(in.cfg_ok /\ in.template_ok)) =>
              /\ in.groups = <<>> /\ ~in.has_non
              /\ ~in.split_supplier_folder /\ in.template_has_sheet}}

NoInput ==
    [date_ok |-> TRUE, has_columns |-> TRUE, has_direct |-> FALSE,
     cfg_ok |-> TRUE, template_ok |-> TRUE, groups |-> <<>>, has_non |-> FALSE,
     split_supplier_folder |-> FALSE, template_has_sheet |-> TRUE, fail_at |-> 0]

\* a plausible slip: the configuration and the template are loaded before
\* the test of line 1359
process_file_start_config_first(in) ==
    IF ~in.date_ok THEN "raised"
    ELSE IF ~in.has_columns THEN "raised"
    ELSE IF ~in.cfg_ok THEN "raised"
    ELSE IF ~in.template_ok THEN "raised"
    ELSE IF ~in.has_direct THEN "returned"
    ELSE "loop"

\* lines 1341-1380, where a call is when it reaches the loop of line 1399 or
\* has left before: parse_date raises (1341), a required column is missing
\* (1354-1355), df_f is empty and [] is returned (1359-1360), load_config_xlsx
\* raises (1376), resolve_template_path raises (1380)
process_file_start(in) ==
    IF ~in.date_ok THEN "raised"
    ELSE IF ~in.has_columns THEN "raised"
    ELSE IF ~in.has_direct THEN "returned"
    ELSE IF ~in.cfg_ok THEN "raised"
    ELSE IF ~in.template_ok THEN "raised"
    ELSE "loop"

NoSave == [path |-> Path("", "", 0), before |-> {}, done |-> FALSE]

\* files a user may have left in the output folder before the first run
PreExisting == {Path(out_base, "s1", 0), Path(out_base, "s1", 1)}

InitRun ==
    /\ fs0 \in SUBSET PreExisting
    /\ fs = fs0
    /\ runs = 0
    /\ run_pc = "idle"
    /\ run_in = NoInput
    /\ run_i = 0
    /\ outputs = <<>>
    /\ written = {}
    /\ last_save = NoSave

InitRunIdle ==
    /\ fs0 = {}
    /\ fs = {}
    /\ runs = 0
    /\ run_pc = "off"
    /\ run_in = NoInput
    /\ run_i = 0
    /\ outputs = <<>>
    /\ written = {}
    /\ last_save = NoSave

\* a call of process_file, lines 1341-1397: it raises, returns [] or reaches
\* the loop over the groups; nothing is saved before the loop
StartRun ==
    /\ run_pc \in {"idle", "returned", "raised"}
    /\ runs < MaxRuns
    /\ runs' = runs + 1
    /\ \E in \in RunInputs :
          /\ run_in' = in
          /\ run_pc' = process_file_start(in)
    /\ run_i' = 0
    /\ outputs' = <<>>
    /\ written' = {}
    /\ UNCHANGED <<fs, fs0, last_save>>

\* a plausible slip: the test for the sheet of lines 1437-1438 made after
\* wb.save
group_pass_test_after_save(in, i) ==
    IF ~in.template_has_sheet THEN [saves |-> TRUE, raises |-> TRUE]
    ELSE IF in.fail_at = i THEN [saves |-> FALSE, raises |-> TRUE]
    ELSE [saves |-> TRUE, raises |-> FALSE]

\* lines 1400-1476, the pass of the loop for the i-th group: whether it
\* reaches wb.save (1469) and whether an exception leaves it. The template
\* without the sheet raises at line 1438; building or saving the workbook of
\* group fail_at raises (build_data_rows_from_file1, load_workbook,
\* rebuild_main_sheet_with_data, os.makedirs or wb.save itself); the loop
\* body has no try statement around it
group_pass(in, i) ==
    IF ~in.template_has_sheet THEN [saves |-> FALSE, raises |-> TRUE]
    ELSE IF in.fail_at = i THEN [saves |-> FALSE, raises |-> TRUE]
    ELSE [saves |-> TRUE, raises |-> FALSE]

\* lines 1399-1476, one pass: the workbook of a group is saved under a free
\* name and its path is appended to outputs
SaveGroup ==
    /\ run_pc = "loop"
    /\ run_i < Len(run_in.groups)
    /\ group_pass(run_in, run_i + 1).saves
    /\ run_pc' = IF group_pass(run_in, run_i + 1).raises THEN "raised" ELSE "loop"
    /\ LET folder == IF run_in.split_supplier_folder THEN factory_folder ELSE out_base
           out_path == unique_path(fs, folder, run_in.groups[run_i + 1])
       IN  /\ fs' = fs \cup {out_path}
           /\ outputs' = Append(outputs, out_path)
           /\ written' = written \cup {out_path}
           /\ last_save' = [path |-> out_path, before |-> fs, done |-> TRUE]
    /\ run_i' = run_i + 1
    /\ UNCHANGED <<fs0, runs, run_in>>

\* lines 1400-1468: an exception before the save (the ValueError of line
\* 1438, or any other) leaves the loop and process_file; outputs is lost
\* with the frame
GroupRaises ==
    /\ run_pc = "loop"
    /\ run_i < Len(run_in.groups)
    /\ ~group_pass(run_in, run_i + 1).saves
    /\ group_pass(run_in, run_i + 1).raises
    /\ run_pc' = "raised"
    /\ UNCHANGED <<fs, fs0, runs, run_in, run_i, outputs, written, last_save>>

LoopDone == run_pc = "loop" /\ run_i = Len(run_in.groups)

\* lines 1478-1522: the summary workbook is saved under a free name in
\* out_base; its path is not appended to outputs; return outputs
WriteSummary ==
    /\ LoopDone
    /\ run_in.has_non
    /\ LET sum_path == unique_path(fs, out_base, sum_name)
       IN  /\ fs' = fs \cup {sum_path}
           /\ written' = written \cup {sum_path}
           /\ last_save' = [path |-> sum_path, before |-> fs, done |-> TRUE]
    /\ run_pc' = "returned"
    /\ UNCHANGED <<fs0, runs, run_in, run_i, outputs>>

\* lines 1516-1519: the export raises, the except clause logs it; return
SummaryFails ==
    /\ LoopDone
    /\ run_in.has_non
    /\ run_pc' = "returned"
    /\ UNCHANGED <<fs, fs0, runs, run_in, run_i, outputs, written, last_save>>

\* line 1478 false: no summary; return outputs
NoSummary ==
    /\ LoopDone
    /\ ~run_in.has_non
    /\ run_pc' = "returned"
    /\ UNCHANGED <<fs, fs0, runs, run_in, run_i, outputs, written, last_save>>

-----------------------------------------------------------------------------
(* Claims about the saved workbooks *)

\* C9: the list process_file returns holds the path of every file the call
\* saved: one per supplier workbook and the path of the summary workbook when
\* one was written.
C9_ReturnsEveryPath ==
    run_pc = "returned" => written = Range(outputs)

SameName(p, files) == {q \in files : q.folder = p.folder /\ q.name = p.name}

\* C10: a save never names a file that exists: the path is name.xlsx when
\* that is free and otherwise name(k).xlsx with the smallest free k >= 1, no
\* file that existed is lost, and in a folder that was empty before the first
\* run the k-th later save of a name goes to name(k).xlsx.
C10_NeverOverwrites ==
    last_save.done =>
        /\ last_save.path \notin last_save.before
        /\ \A j \in 0..(last_save.path.k - 1) :
              [last_save.path EXCEPT !.k = j] \in last_save.before
        /\ last_save.before \subseteq fs
        /\ fs0 = {} => last_save.path.k = Cardinality(SameName(last_save.path, last_save.before))

\* the third save of one name into one folder, and a save that had to skip a
\* file left by the user
C10_Witness ==
    /\ last_save.done
    /\ \/ fs0 = {} /\ last_save.path.k = 2
       \/ fs0 = PreExisting /\ last_save.path = Path(out_base, "s1", 2)

\* C11 as stated: an input with the required columns and no factory-direct
\* row makes process_file return [] without raising and without saving a
\* workbook, whatever the configuration file, the template path and the
\* other arguments are.
C11_EmptyNeverRaises ==
    (run_pc # "idle" /\ run_in.has_columns /\ ~run_in.has_direct) =>
        /\ run_pc = "returned"
        /\ outputs = <<>>
        /\ written = {}

\* C11, amended: when parse_date accepts the pickup date, an input with the
\* required columns and no factory-direct row makes process_file return []
\* without raising and without saving a workbook, whatever the configuration
\* file and the template path are.
C11_EmptyReturnsEarly ==
    (run_pc # "idle" /\ run_in.date_ok /\ run_in.has_columns /\ ~run_in.has_direct) =>
        /\ run_pc = "returned"
        /\ outputs = <<>>
        /\ written = {}

\* an empty df_f with a configuration file and a template path that would
\* both raise, after a run that saved workbooks
C11_Witness ==
    /\ run_pc = "returned"
    /\ run_in.date_ok /\ run_in.has_columns /\ ~run_in.has_direct
    /\ ~run_in.cfg_ok /\ ~run_in.template_ok
    /\ fs # fs0
    /\ written = {}

\* the configuration errors of process_file: an unparseable pickup date, a
\* missing direct-shipment-type or supplier column, load_config_xlsx or
\* resolve_template_path raising, and a template without the sheet
ConfigError(in) ==
    \/ process_file_start(in) = "raised"
    \/ process_file_start(in) = "loop" /\ ~in.template_has_sheet

\* C22: whenever process_file raises a configuration error, no workbook has
\* been saved by that call: the error comes before the first save.
C22_ConfigErrorBeforeSave ==
    (run_pc = "raised" /\ ConfigError(run_in)) => written = {}

\* a template without the sheet, met in the loop over two groups with a
\* summary to write, in a run after one that saved workbooks
C22_Witness ==
    /\ run_pc = "raised"
    /\ process_file_start(run_in) = "loop"
    /\ ~run_in.template_has_sheet
    /\ Len(run_in.groups) = 2
    /\ run_in.has_non
    /\ fs # fs0
    /\ written = {}

\* C23: an exception raised while building or saving the workbook of one
\* supplier group does not abort the run: every group is attempted and the
\* call returns the paths of the workbooks it saved.
C23_GroupFailureDoesNotAbort ==
    (run_pc \in {"returned", "raised"} /\ process_file_start(run_in) = "loop"
        /\ run_in.template_has_sheet) =>
        /\ run_pc = "returned"
        /\ run_i = Len(run_in.groups)
        /\ Range(outputs) = {p \in written : p.name # sum_name}

-----------------------------------------------------------------------------
(* norm_key, fuzzy_factory_address and fuzzy_factory_name, lines 857-864    *)
(* and 1007-1062.  A string is kept as its runs: a sequence of blocks       *)
(* [ch, n], the character ch repeated n times, neighbouring blocks holding  *)
(* different characters.  len, the operator `in` and the removal of         *)
(* characters are computed on the runs, so that a name may be longer than   *)
(* the bonus of line 1054.  The characters are "a" and "b" (letters), " "   *)
(* (a space), "-" (one of the punctuation marks of line 862) and "k", "j"   *)
(* (the two characters of the suffix keji of line 863, the only alternative *)
(* of that pattern these characters can spell).                             *)

Blk(ch, n) == [ch |-> ch, n |-> n]

RECURSIVE len(_)
len(s) == IF s = <<>> THEN 0 ELSE s[1].n + len(Tail(s))

\* the runs of a concatenation of blocks: neighbours of one character merged
RECURSIVE runs_of(_)
runs_of(s) ==
    IF Len(s) <= 1 THEN s
    ELSE LET rest == runs_of(Tail(s))
         IN  IF rest[1].ch = s[1].ch
             THEN <<Blk(s[1].ch, s[1].n + rest[1].n)>> \o Tail(rest)
             ELSE <<s[1]>> \o rest

\* x.replace(ch, "") and re.sub of a class of characters: the blocks of the
\* characters are dropped
remove_chars(s, chars) ==
    LET keep(b) == b.ch \notin chars IN runs_of(SelectSeq(s, keep))

\* Python's `p in t`
contains(p, t) ==
    LET k == Len(p)
    IN  IF k = 0 THEN TRUE
        ELSE IF k = 1
        THEN \E i \in 1..Len(t) : t[i].ch = p[1].ch /\ t[i].n >= p[1].n
        ELSE \E i \in 1..(Len(t) - k + 1) :
                /\ t[i].ch = p[1].ch /\ t[i].n >= p[1].n
                /\ \A j \in 2..(k - 1) : t[i + j - 1] = p[j]
                /\ t[i + k - 1].ch = p[k].ch /\ t[i + k - 1].n >= p[k].n

\* line 863: one legal-entity suffix at the end of the string is removed
strip_suffix(s) ==
    LET m == Len(s)
    IN  IF m >= 2 /\ s[m] = Blk("j", 1) /\ s[m - 1].ch = "k"
        THEN IF s[m - 1].n = 1 THEN SubSeq(s, 1, m - 2)
             ELSE SubSeq(s, 1, m - 2) \o <<Blk("k", s[m - 1].n - 1)>>
        ELSE s

\* lines 857-864
norm_key(s) == strip_suffix(remove_chars(remove_chars(s, {" "}), {"-"}))

\* line 1054
ExactBonus == 1000

\* a plausible slip: a key of one character is matched too
key_usable_nonempty(nk) == len(nk) >= 1

\* lines 1021 and 1048: `if not nk or len(nk) < 2: continue`
key_usable(nk) == len(nk) >= 2

\* a plausible slip: an equal score replaces the match
replaces_on_tie(score, best_score) == score >= best_score

\* lines 1029 and 1059: `if score > best[1]`
replaces(score, best_score) == score > best_score

\* lines 1024-1028
address_score(nk, nn) ==
    IF contains(nk, nn) THEN len(nk)
    ELSE IF contains(nn, nk) THEN len(nn)
    ELSE 0

\* lines 1052-1058
name_score(nk, nn) ==
    IF nk = nn THEN ExactBonus + len(nk)
    ELSE IF contains(nk, nn) THEN len(nk)
    ELSE IF contains(nn, nk) THEN len(nn)
    ELSE 0

\* keys and factory names are named by a short identifier; Spelling gives
\* the characters.  LongLen is the length of a name longer than ExactBonus.
MaxKeys == 2
MaxFactories == 2
LongLen == 1003

NameIds == {"ab", "a-b", "a", "kj", "aab", "aL", "aL1"}

Spelling(id) ==
    CASE id = "ab"  -> <<Blk("a", 1), Blk("b", 1)>>
      [] id = "a-b" -> <<Blk("a", 1), Blk("-", 1), Blk("b", 1)>>
      [] id = "a"   -> <<Blk(" ", 1), Blk("a", 1)>>
      [] id = "kj"  -> <<Blk("k", 1), Blk("j", 1)>>
      [] id = "aab" -> <<Blk("a", 2), Blk("b", 1), Blk("k", 1), Blk("j", 1)>>
      [] id = "aL"  -> <<Blk("a", LongLen)>>
      [] id = "aL1" -> <<Blk("a", LongLen), Blk(" ", 2), Blk("a", 1)>>

\* line 971: the address the configuration gives for a factory name; both
\* are non-empty
AddrOf(id) == <<"address of", id>>
NoAddr == <<>>

\* lines 1016 and 1043: fac_items, in the order of the dictionary
fac_item(id) == [orig_name |-> id, nn |-> norm_key(Spelling(id)), addr |-> AddrOf(id)]

\* lines 1019-1030 and 1046-1060: best after the first p (key, factory) pairs,
\* the keys in the caller's order and, for each key, the factories in the
\* order of the dictionary
RECURSIVE best_after(_, _, _, _)
best_after(keys, facs, variant, p) ==
    IF p = 0 THEN [name |-> "", score |-> 0, addr |-> NoAddr]
    ELSE LET best == best_after(keys, facs, variant, p - 1)
             key == keys[((p - 1) \div Len(facs)) + 1]
             fac == fac_item(facs[((p - 1) % Len(facs)) + 1])
             nk == norm_key(Spelling(key))
             score == IF variant = "name" THEN name_score(nk, fac.nn)
                      ELSE address_score(nk, fac.nn)
         IN  IF key_usable(nk) /\ replaces(score, best.score)
             THEN [name |-> fac.orig_name, score |-> score, addr |-> fac.addr]
             ELSE best

\* lines 1007-1032
fuzzy_factory_address(keys, facs) ==
    IF facs = <<>> THEN NoAddr
    ELSE LET best == best_after(keys, facs, "address", Len(keys) * Len(facs))
         IN  IF best.score > 0 THEN best.addr ELSE NoAddr

\* lines 1035-1062
fuzzy_factory_name(keys, facs) ==
    IF facs = <<>> THEN ""
    ELSE LET best == best_after(keys, facs, "name", Len(keys) * Len(facs))
         IN  IF best.score > 0 THEN best.name ELSE ""

\* the arguments: up to MaxKeys keys and a dictionary of up to MaxFactories
\* factory names, which as keys of a dictionary differ from each other
KeyLists == UNION {[1..n -> NameIds] : n \in 0..MaxKeys}
FactoryMaps ==
    {f \in UNION {[1..n -> NameIds] : n \in 0..MaxFactories} :
        \A i, j \in 1..Len(f) : i # j => f[i] # f[j]}

InitFuzzy ==
    /\ fz_keys \in KeyLists
    /\ fz_facs \in FactoryMaps
    /\ fz_pc = "call"
    /\ fz_addr = NoAddr
    /\ fz_name = ""

InitFuzzyIdle ==
    /\ fz_keys = <<>>
    /\ fz_facs = <<>>
    /\ fz_pc = "off"
    /\ fz_addr = NoAddr
    /\ fz_name = ""

\* the calls of lines 1249 and 1395 on one list of keys
Match ==
    /\ fz_pc = "call"
    /\ fz_addr' = fuzzy_factory_address(fz_keys, fz_facs)
    /\ fz_name' = fuzzy_factory_name(fz_keys, fz_facs)
    /\ fz_pc' = "done"
    /\ UNCHANGED <<fz_keys, fz_facs>>

-----------------------------------------------------------------------------
(* Claims about the fuzzy matchers *)

Matched == fz_pc = "done"

\* the (key, factory) pairs, and the order the loops meet them in
Pairs == (1..Len(fz_keys)) \X (1..Len(fz_facs))
Before(p, q) == p[1] < q[1] \/ (p[1] = q[1] /\ p[2] < q[2])

\* the score of a pair; a key of fewer than 2 normalized characters has none
PairScore(variant, p) ==
    LET nk == norm_key(Spelling(fz_keys[p[1]]))
        nn == norm_key(Spelling(fz_facs[p[2]]))
    IN  IF len(nk) < 2 THEN 0
        ELSE IF variant = "name" THEN name_score(nk, nn)
        ELSE address_score(nk, nn)

\* the pairs of the highest score, when that is positive (the scores are
\* kept as a table: @@ makes TLC build it once)
TopPairs(variant) ==
    LET sc == [p \in Pairs |-> PairScore(variant, p)] @@ <<>>
    IN  {p \in Pairs : sc[p] > 0 /\ \A q \in Pairs : sc[q] <= sc[p]}

FirstTop(variant) ==
    LET top == TopPairs(variant)
    IN  CHOOSE p \in top : \A q \in top : q = p \/ Before(p, q)

InContainment(p) ==
    LET nk == norm_key(Spelling(fz_keys[p[1]]))
        nn == norm_key(Spelling(fz_facs[p[2]]))
    IN  contains(nk, nn) \/ contains(nn, nk)

LongKey(i) == len(norm_key(Spelling(fz_keys[i]))) >= 2
NamedFactory(j) == len(norm_key(Spelling(fz_facs[j]))) >= 1

\* C13: fuzzy_factory_address returns a non-empty address if and only if
\* some key of at least 2 normalized characters and some factory of a
\* non-empty normalized name are in containment in either direction; a key
\* of fewer than 2 normalized characters does not change the result, and with
\* no such pair the result is the empty string.
C13_AddressIffContainment ==
    Matched =>
        /\ fz_addr # NoAddr <=>
              \E p \in Pairs : LongKey(p[1]) /\ NamedFactory(p[2]) /\ InContainment(p)
        /\ fz_addr = fuzzy_factory_address(
                        SelectSeq(fz_keys, LAMBDA k : len(norm_key(Spelling(k))) >= 2),
                        fz_facs)

\* an address is returned for a key of 2 characters, next to a key of one
\* character that a factory name contains and to a factory name that is
\* empty once normalized
C13_Witness ==
    /\ Matched
    /\ fz_addr # NoAddr
    /\ \E p \in Pairs : ~LongKey(p[1]) /\ NamedFactory(p[2]) /\ InContainment(p)
    /\ \E j \in 1..Len(fz_facs) : ~NamedFactory(j)

\* the key and the factory of a pair have the same normalized form
ExactPair(p) == norm_key(Spelling(fz_keys[p[1]])) = norm_key(Spelling(fz_facs[p[2]]))

\* C14: in fuzzy_factory_name exact normalized equality scores highest:
\* whenever the normalized form of a key the loop looks at equals the
\* normalized name of a factory, the name returned is that of a factory whose
\* normalized name equals a key, never one matched by containment only,
\* whatever the lengths of the keys and names are.
C14_ExactBeatsContainment ==
    (Matched /\ \E p \in Pairs : LongKey(p[1]) /\ ExactPair(p)) =>
        \E p \in Pairs : LongKey(p[1]) /\ ExactPair(p) /\ fz_name = fz_facs[p[2]]

\* C29: for the same keys and the same factory map, fuzzy_factory_address
\* returns the address of the factory whose name fuzzy_factory_name returns,
\* and returns no address exactly when fuzzy_factory_name returns no name.
C29_SameFactory ==
    Matched =>
        IF fz_name = "" THEN fz_addr = NoAddr ELSE fz_addr = AddrOf(fz_name)

-----------------------------------------------------------------------------
(* fba_download_labels_for_file, lines 350-417: the carton count of one row *)
(* of the split workbook.  The table is read with dtype=str: a cell is      *)
(* absent (None or NaN), a string that is no number ("", "nan", "abc") or a *)
(* numeral, kept as the fraction n/d with d > 0 ("120" is 120/1, "2.5" is   *)
(* 5/2).  The columns are named by what lines 309-347 resolved them to:     *)
(* "id" for id_col, "qty" for qty_col, "ship" for a member of ship_qty_cols,*)
(* "box" for a member of single_box_cols and "x" for any other column.      *)

Absent == [k |-> "absent"]
Txt(t) == [k |-> "str", s |-> t]
Num(n, d) == [k |-> "num", n |-> n, d |-> d]

NoQval == [some |-> FALSE, v |-> 0]
Qval(v) == [some |-> TRUE, v |-> v]

\* lines 366 and 405: pd.notna(qraw) and str(qraw).strip() not in ("", "nan")
has_value(c) == c.k # "absent" /\ ~(c.k = "str" /\ c.s \in {"", "nan"})

\* float(str(qraw).strip()) raises on a string that is no numeral
float_ok(c) == c.k = "num"

\* int(float(...)): the fraction truncated toward zero
int_of(c) == IF c.n >= 0 THEN c.n \div c.d ELSE 0 - ((0 - c.n) \div c.d)

\* math.ceil(s_num / b_num) for b_num # 0
ceil_div(s, b) ==
    LET num == IF b.n > 0 THEN s.n * b.d ELSE 0 - (s.n * b.d)
        den == IF b.n > 0 THEN s.d * b.n ELSE 0 - (s.d * b.n)
    IN  IF num >= 0 THEN (num + den - 1) \div den ELSE 0 - ((0 - num) \div den)

\* a plausible slip: only a missing value falls through to the next step
needs_fallback_none_only(qval) == ~qval.some

\* lines 372, 395 and 414: `qval is None or qval <= 0`
needs_fallback(qval) == ~qval.some \/ qval.v <= 0

ColsOfRole(cols, role) == SelectSeq([i \in 1..Len(cols) |-> i], LAMBDA i : cols[i] = role)

\* lines 361-369: the direct read of qty_col; an exception leaves None
read_direct(cols, row) ==
    LET q == ColsOfRole(cols, "qty")
    IN  IF q = <<>> THEN NoQval
        ELSE LET qraw == row[q[1]]
             IN  IF has_value(qraw) /\ float_ok(qraw) THEN Qval(int_of(qraw))
                 ELSE NoQval

\* lines 377-387 for one pair of columns: the ceiling when both cells are
\* numerals, the divisor is not 0 and the result is positive
pair_ceil(s_val, b_val) ==
    IF /\ s_val.k = "num" /\ b_val.k = "num"
       /\ b_val.n # 0
       /\ ceil_div(s_val, b_val) > 0
    THEN Qval(ceil_div(s_val, b_val))
    ELSE NoQval

\* lines 373-392: the pairs in the order of the two loops; the first pair
\* that gives a positive ceiling sets qval, otherwise qval is kept
RECURSIVE compute_from(_, _, _, _, _)
compute_from(row, ships, boxes, qval, p) ==
    IF p > Len(ships) * Len(boxes) THEN qval
    ELSE LET sq == ships[((p - 1) \div Len(boxes)) + 1]
             sb == boxes[((p - 1) % Len(boxes)) + 1]
             c == pair_ceil(row[sq], row[sb])
         IN  IF c.some THEN c ELSE compute_from(row, ships, boxes, qval, p + 1)

\* line 399
Offsets == <<1, -1, 2, -2, 3>>

\* lines 396-411: the first neighbour of id_col, in the order of Offsets,
\* whose cell has a value that int(float(...)) accepts sets qval and ends the
\* scan; a string that is no numeral raises and the scan goes on
RECURSIVE scan_adjacent(_, _, _, _)
scan_adjacent(cols, row, qval, o) ==
    IF o > Len(Offsets) THEN qval
    ELSE LET idx == ColsOfRole(cols, "id")[1] + Offsets[o]
         IN  IF /\ idx >= 1 /\ idx <= Len(cols)
                /\ has_value(row[idx]) /\ float_ok(row[idx])
             THEN Qval(int_of(row[idx]))
             ELSE scan_adjacent(cols, row, qval, o + 1)

\* lines 361-417: the value stored in id_to_qty for the row
carton_count(cols, row) ==
    LET ships == ColsOfRole(cols, "ship")
        boxes == ColsOfRole(cols, "box")
        q1 == read_direct(cols, row)
        q2 == IF needs_fallback(q1) /\ ships # <<>> /\ boxes # <<>>
              THEN compute_from(row, ships, boxes, q1, 1)
              ELSE q1
        q3 == IF needs_fallback(q2) THEN scan_adjacent(cols, row, q2, 1) ELSE q2
    IN  IF needs_fallback(q3) THEN 1 ELSE q3.v

\* the tables: the columns of a split workbook and one row of cells
Layouts ==
    {<<"x", "x", "id", "x", "x", "x">>,
     <<"id", "qty", "ship", "box">>,
     <<"qty", "ship", "ship", "box", "x", "id">>}

CellsOfRole(role) ==
    CASE role = "id"   -> {Absent, Txt("fba15abc")}
      [] role = "qty"  -> {Absent, Txt(""), Txt("abc"), Num(0, 1), Num(-3, 1), Num(7, 1), Num(5, 2)}
      [] role = "ship" -> {Absent, Txt("abc"), Num(120, 1), Num(-5, 1), Num(7, 1)}
      [] role = "box"  -> {Absent, Txt("nan"), Num(25, 1), Num(0, 1), Num(2, 1)}
      [] role = "x"    -> {Absent, Txt("abc"), Num(0, 1), Num(-3, 1), Num(5, 1), Num(7, 1)}

RECURSIVE RowsOfLayout(_)
RowsOfLayout(cols) ==
    IF cols = <<>> THEN {<<>>}
    ELSE {Append(row, c) : row \in RowsOfLayout(SubSeq(cols, 1, Len(cols) - 1)),
                           c \in CellsOfRole(cols[Len(cols)])}

NoEntry == [set |-> FALSE, v |-> 0]

InitLabel ==
    /\ lb_cols \in Layouts
    /\ lb_row \in RowsOfLayout(lb_cols)
    /\ lb_pc = "row"
    /\ lb_qty = NoEntry

InitLabelIdle ==
    /\ lb_cols = <<>>
    /\ lb_row = <<>>
    /\ lb_pc = "off"
    /\ lb_qty = NoEntry

\* lines 353-358: a row without an identifier adds nothing to id_to_qty
SkipRow ==
    /\ lb_pc = "row"
    /\ ~has_value(lb_row[ColsOfRole(lb_cols, "id")[1]])
    /\ lb_pc' = "done"
    /\ UNCHANGED <<lb_cols, lb_row, lb_qty>>

\* lines 359-417: id_to_qty[key] = int(qval)
RecordRow ==
    /\ lb_pc = "row"
    /\ has_value(lb_row[ColsOfRole(lb_cols, "id")[1]])
    /\ lb_qty' = [set |-> TRUE, v |-> carton_count(lb_cols, lb_row)]
    /\ lb_pc' = "done"
    /\ UNCHANGED <<lb_cols, lb_row>>

-----------------------------------------------------------------------------
(* Claims about the carton count of the label sub-flow *)

Recorded == lb_pc = "done" /\ lb_qty.set

\* the cell of the direct carton-count column holds a numeral of integer
\* part >= 1, and that integer part
DirectPositive ==
    /\ ColsOfRole(lb_cols, "qty") # <<>>
    /\ LET c == lb_row[ColsOfRole(lb_cols, "qty")[1]]
       IN  c.k = "num" /\ c.n >= c.d
DirectValue ==
    LET c == lb_row[ColsOfRole(lb_cols, "qty")[1]]
    IN  CHOOSE v \in 1..c.n : v * c.d <= c.n /\ c.n < (v + 1) * c.d

\* v is the ceiling of the quotient of two numerals
IsCeil(v, s, b) ==
    LET N == s.n * b.d
        D == s.d * b.n
    IN  IF D > 0 THEN (v - 1) * D < N /\ N <= v * D
        ELSE (v - 1) * D > N /\ N >= v * D

\* the pairs of a ship-quantity and a units-per-carton column whose cells are
\* numerals with a positive ceiling of the quotient, and the first of them in
\* the order of the loops
GoodPairs ==
    {p \in Range(ColsOfRole(lb_cols, "ship")) \X Range(ColsOfRole(lb_cols, "box")) :
        /\ lb_row[p[1]].k = "num" /\ lb_row[p[2]].k = "num"
        /\ lb_row[p[1]].n * lb_row[p[2]].n > 0}
FirstGoodPair ==
    CHOOSE p \in GoodPairs : \A q \in GoodPairs :
        p[1] < q[1] \/ (p[1] = q[1] /\ p[2] <= q[2])

PositiveOffsets ==
    {o \in 1..Len(Offsets) :
        LET idx == ColsOfRole(lb_cols, "id")[1] + Offsets[o]
        IN  /\ idx >= 1 /\ idx <= Len(lb_cols)
            /\ lb_row[idx].k = "num" /\ lb_row[idx].n >= lb_row[idx].d}

\* C16: when step (c) is reached, the carton count is the value of the
\* first column, in the offset order +1, -1, +2, -2, +3 from the identifier
\* column, that holds a positive integer; a value that is not positive or no
\* number in a nearer column does not keep the scan from a positive value at
\* a later offset.
C16_FirstPositiveNeighbour ==
    (Recorded /\ ~DirectPositive /\ GoodPairs = {} /\ PositiveOffsets # {}) =>
        LET c == lb_row[ColsOfRole(lb_cols, "id")[1] + Offsets[Min(PositiveOffsets)]]
        IN  lb_qty.v * c.d <= c.n /\ c.n < (lb_qty.v + 1) * c.d

-----------------------------------------------------------------------------
(* build_data_rows_from_file1, lines 1235 and 1243-1276: the units per      *)
(* carton ("danxiangshuliang") of each row.  A row of file 1 is its SKU and *)
(* its cells under the columns "xianggui", "xianggui.1", ... that           *)
(* choose_best_numeric_col looks at; cfg_carton_map gives, for the SKUs of  *)
(* the configuration, the float or NaN that load_config_xlsx stored.        *)

MaxBuildRows == 2

Skus == {"A", "B"}
SpecCells == {Absent, Txt("abc"), Num(25, 1), Num(0, 1)}
CfgValues == {Absent, Num(40, 1)}

\* pd.to_numeric(x, errors="coerce") followed by pd.isna: a number or a
\* numeral gives its value, anything else NaN
to_numeric(c) == IF c.k = "num" THEN c ELSE Absent

\* lines 825-835: the column of the most numeric cells, the first on a tie;
\* 0 stands for None (no such column)
RECURSIVE choose_best_numeric_col(_, _, _)
choose_best_numeric_col(df, ncols, c) ==
    IF c = 0 THEN [col |-> 0, nonnull |-> -1]
    ELSE LET best == choose_best_numeric_col(df, ncols, c - 1)
             nn == Cardinality({i \in 1..Len(df) : to_numeric(df[i].spec[c]).k = "num"})
         IN  IF nn > best.nonnull THEN [col |-> c, nonnull |-> nn] ELSE best

\* a plausible slip: the default 1 of the label sub-flow
carton_initial_one == Num(1, 1)

\* line 1260: carton = None
carton_initial == Absent

\* lines 1260-1267: the value of "danxiangshuliang" for a row
carton_of_row(r, carton_col, cfg_carton_map) ==
    LET c0 == carton_initial
        c1 == IF carton_col # 0 THEN to_numeric(r.spec[carton_col]) ELSE c0
    IN  IF c1 = Absent /\ r.sku \in DOMAIN cfg_carton_map
        THEN LET v == cfg_carton_map[r.sku]
             IN  IF v # Absent THEN v ELSE c1
        ELSE c1

\* lines 1235-1285, the column "danxiangshuliang" of the rows returned
build_data_rows_from_file1(df, ncols, cfg_carton_map) ==
    LET carton_col == choose_best_numeric_col(df, ncols, ncols).col
    IN  [i \in 1..Len(df) |-> carton_of_row(df[i], carton_col, cfg_carton_map)]

RECURSIVE SpecRows(_)
SpecRows(ncols) ==
    IF ncols = 0 THEN {<<>>}
    ELSE {Append(cells, c) : cells \in SpecRows(ncols - 1), c \in SpecCells}

SpecColumnCounts == 0..2

InitBuild ==
    /\ bd_ncols \in SpecColumnCounts
    /\ bd_df \in UNION {[1..n -> [sku : Skus, spec : SpecRows(bd_ncols)]] : n \in 0..MaxBuildRows}
    /\ bd_cfg \in UNION {[S -> CfgValues] : S \in SUBSET Skus}
    /\ bd_pc = "call"
    /\ bd_rows = <<>>

InitBuildIdle ==
    /\ bd_ncols = 0
    /\ bd_df = <<>>
    /\ bd_cfg = <<>>
    /\ bd_pc = "off"
    /\ bd_rows = <<>>

BuildRows ==
    /\ bd_pc = "call"
    /\ bd_rows' = build_data_rows_from_file1(bd_df, bd_ncols, bd_cfg)
    /\ bd_pc' = "done"
    /\ UNCHANGED <<bd_ncols, bd_df, bd_cfg>>

-----------------------------------------------------------------------------
(* Claim about the units per carton *)

\* the carton-spec column: the one with the most numerals, the leftmost of
\* those
BestSpecColumn ==
    LET count(c) == Cardinality({i \in 1..Len(bd_df) : bd_df[i].spec[c].k = "num"})
    IN  IF bd_ncols = 0 THEN 0
        ELSE Min({c \in 1..bd_ncols : \A d \in 1..bd_ncols : count(d) <= count(c)})

\* C17: for each row built, the units per carton is the numeric value of the
\* cell of the input's carton-spec column when that cell is numeric,
\* otherwise the units per carton the configuration has for the SKU of the
\* row when that is a number, otherwise null; 1 is never put in as a default.
C17_UnitsPerCarton ==
    bd_pc = "done" =>
        /\ Len(bd_rows) = Len(bd_df)
        /\ \A i \in 1..Len(bd_df) :
              LET r == bd_df[i]
                  own == IF BestSpecColumn = 0 THEN Absent ELSE r.spec[BestSpecColumn]
              IN  /\ bd_rows[i] =
                        IF own.k = "num" THEN own
                        ELSE IF r.sku \in DOMAIN bd_cfg /\ bd_cfg[r.sku].k = "num"
                             THEN bd_cfg[r.sku]
                        ELSE Absent
                  /\ bd_rows[i] # Num(1, 1)

\* the second carton-spec column has the most numerals: the first row gets
\* its own 25, the second row, whose cell is no number, the 40 of the
\* configuration
C17_Witness ==
    /\ bd_pc = "done"
    /\ Len(bd_df) = 2
    /\ bd_ncols = 2 /\ BestSpecColumn = 2
    /\ bd_df[1].spec = <<Txt("abc"), Num(25, 1)>> /\ bd_rows[1] = Num(25, 1)
    /\ bd_df[2].spec = <<Absent, Txt("abc")>> /\ bd_rows[2] = Num(40, 1)

-----------------------------------------------------------------------------
(* find_col, lines 802-812, and the head of load_config_xlsx, lines         *)
(* 902-921.  A column name is a sequence of text units, as the cells of the *)
(* split are; "jiansuo" and "cangku" are the words that the names           *)
(* "SKU jiansuo" (the lookup-code column) and "cangku SKU" add to "SKU".    *)

MaxColumns == 2
MaxCandidates == 2

Whitespace == {SP, IDSP, TAB}

\* str.strip(): the whitespace at both ends is removed
RECURSIVE strip(_)
strip(s) ==
    IF s = <<>> THEN s
    ELSE IF s[1] \in Whitespace THEN strip(Tail(s))
    ELSE IF s[Len(s)] \in Whitespace THEN strip(SubSeq(s, 1, Len(s) - 1))
    ELSE s

NotFound == [found |-> FALSE, col |-> <<>>]
FoundCol(c) == [found |-> TRUE, col |-> c]

\* one pass of find_col: the first candidate, in the order of candidates,
\* that some column matches, and the first such column; exact tells whether
\* `c == pat` or `pat in c` is the test
RECURSIVE find_pass(_, _, _, _)
find_pass(cols, candidates, exact, k) ==
    IF k > Len(candidates) THEN NotFound
    ELSE LET pat == candidates[k]
             hits == {i \in 1..Len(cols) :
                         IF exact THEN cols[i] = pat ELSE str_contains(cols[i], pat)}
         IN  IF hits # {} THEN FoundCol(cols[Min(hits)])
             ELSE find_pass(cols, candidates, exact, k + 1)

\* a plausible slip: one pass, a candidate matching by equality or containment
find_col_single_pass(columns, candidates) ==
    find_pass([i \in 1..Len(columns) |-> strip(columns[i])], candidates, FALSE, 1)

\* lines 802-812
find_col(columns, candidates) ==
    LET cols == [i \in 1..Len(columns) |-> strip(columns[i])]
        first == find_pass(cols, candidates, TRUE, 1)
    IN  IF first.found THEN first ELSE find_pass(cols, candidates, FALSE, 1)

\* lines 902-921: the ValueError of line 905 or 921, or the column taken as
\* the SKU column
load_config_xlsx(has_sheet, columns) ==
    IF ~has_sheet THEN [raised |-> TRUE, sku_col |-> <<>>]
    ELSE LET sku_col == find_col([i \in 1..Len(columns) |-> strip(columns[i])], <<<<"SKU">>>>)
         IN  IF ~sku_col.found THEN [raised |-> TRUE, sku_col |-> <<>>]
             ELSE [raised |-> FALSE, sku_col |-> sku_col.col]

ColumnNames ==
    {<<"SKU">>, <<"SKU", "jiansuo">>, <<"cangku", "SKU">>, <<SP, "SKU", IDSP>>,
     <<"pinming">>, <<"chanpin", SP, "pinming">>}
CandidateNames == {<<"SKU">>, <<"cangku", "SKU">>, <<"pinming">>}

InitConfig ==
    /\ cf_has_sheet \in BOOLEAN
    /\ cf_columns \in UNION {[1..n -> ColumnNames] : n \in 0..MaxColumns}
    /\ cf_candidates \in UNION {[1..n -> CandidateNames] : n \in 0..MaxCandidates}
    /\ cf_pc = "call"
    /\ cf_found = NotFound
    /\ cf_load = [raised |-> FALSE, sku_col |-> <<>>]

InitConfigIdle ==
    /\ cf_has_sheet = FALSE
    /\ cf_columns = <<>>
    /\ cf_candidates = <<>>
    /\ cf_pc = "off"
    /\ cf_found = NotFound
    /\ cf_load = [raised |-> FALSE, sku_col |-> <<>>]

\* a call of find_col on the columns of a table
FindCol ==
    /\ cf_pc = "call"
    /\ cf_found' = find_col(cf_columns, cf_candidates)
    /\ cf_pc' = "found"
    /\ UNCHANGED <<cf_has_sheet, cf_columns, cf_candidates, cf_load>>

\* a call of load_config_xlsx on a workbook whose sheet "SKU xinxi", when
\* it has one, has these columns
LoadConfig ==
    /\ cf_pc = "call"
    /\ cf_load' = load_config_xlsx(cf_has_sheet, cf_columns)
    /\ cf_pc' = "loaded"
    /\ UNCHANGED <<cf_has_sheet, cf_columns, cf_candidates, cf_found>>

-----------------------------------------------------------------------------
(* Claims about find_col and load_config_xlsx *)

Stripped == [i \in 1..Len(cf_columns) |-> strip(cf_columns[i])]
ExactCandidates == {k \in 1..Len(cf_candidates) : \E i \in 1..Len(Stripped) : Stripped[i] = cf_candidates[k]}
SubstringCandidates ==
    {k \in 1..Len(cf_candidates) :
        \E i \in 1..Len(Stripped) : str_contains(Stripped[i], cf_candidates[k])}

\* C18: find_col returns a column equal to a candidate whenever a candidate
\* has an exact match, the earliest such candidate whatever the positions of
\* the columns; containment decides only when no candidate equals a column,
\* and then the earliest candidate a column contains gives the first column
\* that contains it; None is returned only when neither pass matches.
C18_ExactBeforeSubstring ==
    cf_pc = "found" =>
        /\ ExactCandidates # {} =>
              cf_found = FoundCol(cf_candidates[Min(ExactCandidates)])
        /\ (ExactCandidates = {} /\ SubstringCandidates # {}) =>
              LET pat == cf_candidates[Min(SubstringCandidates)]
                  i == Min({j \in 1..Len(Stripped) : str_contains(Stripped[j], pat)})
              IN  cf_found = FoundCol(Stripped[i])
        /\ ~cf_found.found <=> (ExactCandidates = {} /\ SubstringCandidates = {})

\* the second candidate equals the first column and the first candidate the
\* second column, while the first column contains the first candidate
C18_Witness ==
    /\ cf_pc = "found"
    /\ Len(cf_columns) = 2 /\ Len(cf_candidates) = 2
    /\ Stripped[1] = cf_candidates[2]
    /\ Stripped[2] = cf_candidates[1]
    /\ Stripped[1] # cf_candidates[1] /\ str_contains(Stripped[1], cf_candidates[1])
    /\ cf_found = FoundCol(cf_candidates[1])

\* C19: load_config_xlsx fails with an error whenever the sheet "SKU xinxi"
\* is absent or has no column named SKU, also when the sheet has a column
\* whose name only contains "SKU", such as "SKU jiansuo".
C19_MissingSkuColumnFails ==
    (cf_pc = "loaded" /\ (~cf_has_sheet \/ \A i \in 1..Len(Stripped) : Stripped[i] # <<"SKU">>)) =>
        cf_load.raised

-----------------------------------------------------------------------------
(* export_mid_warehouse_keep_format, lines 685-779, as process_file calls   *)
(* it at line 1512 on the sheet of file 1.  Header names and cells are      *)
(* sequences of text units: "zhongcang huo gongchang zhifa" is the header   *)
(* of the direct-shipment-type column, "qudao" (channel), "dianpu" (shop),  *)
(* "gongyingshang" (supplier) and "fahuo fangshi" (shipping method) are     *)
(* other headers.                                                           *)

MaxSheetRows == 2

H_direct == <<"zhongcang", SP, "huo", SP, "gongchang", "zhifa">>
H_supplier == <<"gongyingshang">>
H_channel == <<"qudao">>
H_shop == <<"dianpu">>
H_shipmode == <<"fahuo", "fangshi">>

\* line 712 and line 713
ExportDirectCandidates ==
    <<<<"zhifa">>, <<"fayun", "leixing">>, <<"zhifa", "leixing">>,
      <<"peisong", "fangshi">>, <<"fahuo", "fangshi">>>>
ExportChannelCandidates ==
    <<<<"qudao">>, <<"pingtai">>, <<"zhandian">>, <<"qudao", "mingcheng">>,
      <<"qudao", "leixing">>, <<"xiaoshou", "qudao">>>>

\* line 1351 and line 1366
ProcessDirectCandidates ==
    <<H_direct, <<"zhongcang", "huo", "gongchang", "zhifa">>, <<"gongchang", "zhifa">>>>
ProcessChannelCandidates ==
    <<<<"qudao">>, <<"pingtai">>, <<"pingtai", "zhandian">>, <<"zhandian">>,
      <<"Channel">>, <<"Platform">>, <<"dianpu">>, <<"zhanghao">>, <<"zhanghu">>>>

\* str.lower(), unit by unit
lower_unit(u) ==
    CASE u = "Amazon" -> "amazon"
      [] u = "AMZ" -> "amz"
      [] u = "Shopify" -> "shopify"
      [] u = "US" -> "us"
      [] u = "Channel" -> "channel"
      [] u = "Platform" -> "platform"
      [] u = ".ZIP" -> ".zip"
      [] u = "FBA_SHIPMENT_" -> "fba_shipment_"
      [] OTHER -> u
lower(t) == [i \in 1..Len(t) |-> lower_unit(t[i])]

\* lines 698-710: the index of the first header that equals a candidate,
\* both in lower case, else of the first header that contains one; 0 stands
\* for None
find_col_idx(headers, candidates) ==
    LET cands == {lower(candidates[k]) : k \in 1..Len(candidates)}
        hl(i) == lower(strip(headers[i]))
        equal == {i \in 1..Len(headers) : hl(i) \in cands}
        inside == {i \in 1..Len(headers) : \E pat \in cands : str_contains(hl(i), pat)}
    IN  IF equal # {} THEN Min(equal)
        ELSE IF inside # {} THEN Min(inside)
        ELSE 0

\* lines 765-766, and 1357-1358: the marker is in the cell once the spaces
\* are removed
is_factory_direct(cell) == str_contains(strip_spaces(cell), Marker)

\* lines 770-771, and 1368-1369
is_amazon(cell) ==
    \/ str_contains(lower(cell), <<"amazon">>)
    \/ str_contains(lower(cell), <<"yamaxun">>)
    \/ str_contains(lower(cell), <<"amz">>)

\* lines 719-720: df_tmp is the whole sheet below the header row, and
\* df_tmp.to_excel writes every row of it
fallback_rows(headers, rows) == [i \in 1..Len(rows) |-> i]

\* lines 763-777: the rows copied in normal mode
styled_rows(headers, rows, direct_idx, channel_idx) ==
    SelectSeq([i \in 1..Len(rows) |-> i],
              LAMBDA i : /\ ~is_factory_direct(rows[i][direct_idx])
                         /\ is_amazon(rows[i][channel_idx]))

\* lines 712-779: the mode and the rows written, by their position below
\* the header row
export_mid_warehouse_keep_format(headers, rows) ==
    LET direct_idx == find_col_idx(headers, ExportDirectCandidates)
        channel_idx == find_col_idx(headers, ExportChannelCandidates)
    IN  IF direct_idx = 0 \/ channel_idx = 0
        THEN [mode |-> "unstyled", rows |-> fallback_rows(headers, rows)]
        ELSE [mode |-> "styled", rows |-> styled_rows(headers, rows, direct_idx, channel_idx)]

\* the sheets: the header row and up to MaxSheetRows rows below it
HeaderRows ==
    {<<H_direct, H_supplier, H_channel>>,
     <<H_direct, H_supplier>>,
     <<H_direct, H_supplier, H_shop>>,
     <<H_shipmode, H_direct, H_supplier, H_channel>>}

ChannelCells == {<<"Amazon", SP, "US">>, <<"AMZ">>, <<"Shopify">>, <<>>}

CellsUnder(h) ==
    CASE h = H_direct -> {Marker, <<"gongchang", SP, "zhifa">>, <<"zhongcang">>}
      [] h = H_supplier -> {<<"s1">>}
      [] h = H_channel -> ChannelCells
      [] h = H_shop -> ChannelCells
      [] h = H_shipmode -> {<<"kuaidi">>}

RECURSIVE SheetRows(_)
SheetRows(headers) ==
    IF headers = <<>> THEN {<<>>}
    ELSE {Append(r, c) : r \in SheetRows(SubSeq(headers, 1, Len(headers) - 1)),
                         c \in CellsUnder(headers[Len(headers)])}

\* the cell of a row under the column find_col returned
CellAt(headers, r, col) == r[Min({i \in 1..Len(headers) : strip(headers[i]) = col})]

\* lines 1351-1372: the rows of df_f and of df_non after the channel filter
rows_df_f(headers, rows) ==
    LET d == find_col(headers, ProcessDirectCandidates)
    IN  SelectSeq([i \in 1..Len(rows) |-> i],
                  LAMBDA i : is_factory_direct(CellAt(headers, rows[i], d.col)))
rows_df_non(headers, rows) ==
    LET d == find_col(headers, ProcessDirectCandidates)
        ch == find_col(headers, ProcessChannelCandidates)
    IN  SelectSeq([i \in 1..Len(rows) |-> i],
                  LAMBDA i : /\ ~is_factory_direct(CellAt(headers, rows[i], d.col))
                             /\ ch.found => is_amazon(CellAt(headers, rows[i], ch.col)))

NoExport == [mode |-> "none", rows |-> <<>>]

InitExport ==
    /\ ex_headers \in HeaderRows
    /\ ex_rows \in UNION {[1..n -> SheetRows(ex_headers)] : n \in 0..MaxSheetRows}
    /\ ex_pc = "summary"
    /\ ex_out = NoExport

InitExportIdle ==
    /\ ex_headers = <<>>
    /\ ex_rows = <<>>
    /\ ex_pc = "off"
    /\ ex_out = NoExport

\* lines 1359-1360 and 1478: process_file has returned [] on an empty df_f,
\* or df_non is empty; no summary workbook
SkipSummary ==
    /\ ex_pc = "summary"
    /\ rows_df_f(ex_headers, ex_rows) = <<>> \/ rows_df_non(ex_headers, ex_rows) = <<>>
    /\ ex_pc' = "done"
    /\ UNCHANGED <<ex_headers, ex_rows, ex_out>>

\* line 1512: the call of export_mid_warehouse_keep_format
ExportSummary ==
    /\ ex_pc = "summary"
    /\ rows_df_f(ex_headers, ex_rows) # <<>>
    /\ rows_df_non(ex_headers, ex_rows) # <<>>
    /\ ex_out' = export_mid_warehouse_keep_format(ex_headers, ex_rows)
    /\ ex_pc' = "done"
    /\ UNCHANGED <<ex_headers, ex_rows>>

-----------------------------------------------------------------------------
(* Claim about the unstyled export *)

\* C20: when export_mid_warehouse_keep_format cannot resolve the
\* direct-shipment-type column or the channel column and falls back to the
\* unstyled export, the rows it writes are the filtered rows of the normal
\* mode: no factory-direct row and no row of a channel other than Amazon is
\* written.
C20_FallbackWritesFilteredRows ==
    (ex_pc = "done" /\ ex_out.mode = "unstyled") =>
        \A k \in 1..Len(ex_out.rows) :
            LET r == ex_rows[ex_out.rows[k]]
                d == find_col(ex_headers, ProcessDirectCandidates)
                ch == find_col(ex_headers, ProcessChannelCandidates)
            IN  /\ ~is_factory_direct(CellAt(ex_headers, r, d.col))
                /\ ch.found => is_amazon(CellAt(ex_headers, r, ch.col))

\* C21: the data rows export_mid_warehouse_keep_format writes to the summary
\* workbook are exactly the rows of the "other" partition process_file
\* computed (the rows that are not factory-direct and pass the Amazon filter,
\* or all rows that are not factory-direct when process_file found no
\* channel column), whatever the headers of the input are.
C21_ExportEqualsOtherPartition ==
    (ex_pc = "done" /\ ex_out.mode # "none") =>
        ex_out.rows = rows_df_non(ex_headers, ex_rows)

-----------------------------------------------------------------------------
(* _fba_wait_cooldown, lines 68-103, and the POST of lines 482-485, called  *)
(* from several threads                                                    *)

MaxThreads == 2     \* threads that call fba_download_labels_for_file
MaxCooldown == 2    \* the largest cooldown_sec, in seconds
MaxClock == 4       \* seconds that pass during a behaviour

Threads == 1..MaxThreads

\* lines 74-79, for an integer argument: a negative cooldown counts as 0
clamp_cooldown(c) == IF c < 0 THEN 0 ELSE c

NoThread == [pc |-> "off", end_ts |-> 0, wake |-> 0, post |-> -1]
Caller == [pc |-> "call", end_ts |-> 0, wake |-> 0, post |-> -1]

\* time.time() is far past the epoch, so the first caller finds
\* _FBA_LAST_PRINT_TS + cooldown_sec in the past: the clock starts at
\* MaxCooldown with _FBA_LAST_PRINT_TS = 0 (line 65)
InitCooldown ==
    /\ cd_now = MaxCooldown
    /\ FBA_LAST_PRINT_TS = 0
    /\ FBA_PRINT_LOCK = 0
    /\ cd_cooldown \in -1..MaxCooldown
    /\ cd_thread = [t \in Threads |-> Caller]

InitCooldownIdle ==
    /\ cd_now = 0
    /\ FBA_LAST_PRINT_TS = 0
    /\ FBA_PRINT_LOCK = 0
    /\ cd_cooldown = 0
    /\ cd_thread = <<>>

\* time passes, whatever the threads are doing
Tick ==
    /\ cd_thread # <<>>
    /\ cd_now < MaxCooldown + MaxClock
    /\ cd_now' = cd_now + 1
    /\ UNCHANGED <<FBA_LAST_PRINT_TS, FBA_PRINT_LOCK, cd_cooldown, cd_thread>>

\* lines 81-88: the lock is taken; with no wait left the time stamp is set
\* and the call returns, which releases the lock; otherwise end_ts is set
\* and the loop of line 90 is entered with the lock held
EnterLock ==
    \E t \in DOMAIN cd_thread :
        /\ cd_thread[t].pc = "call"
        /\ FBA_PRINT_LOCK = 0
        /\ LET now == cd_now
               wait == (FBA_LAST_PRINT_TS + clamp_cooldown(cd_cooldown)) - now
           IN  IF wait <= 0
               THEN /\ FBA_LAST_PRINT_TS' = now
                    /\ FBA_PRINT_LOCK' = 0
                    /\ cd_thread' = [cd_thread EXCEPT ![t].pc = "post"]
               ELSE /\ FBA_PRINT_LOCK' = t
                    /\ cd_thread' = [cd_thread EXCEPT ![t].pc = "loop",
                                                      ![t].end_ts = now + wait]
                    /\ UNCHANGED FBA_LAST_PRINT_TS
        /\ UNCHANGED <<cd_now, cd_cooldown>>

\* lines 91-92 and 103: remain is computed; when it is positive the thread
\* sleeps one second at least
LoopTest ==
    \E t \in DOMAIN cd_thread :
        /\ cd_thread[t].pc = "loop"
        /\ LET remain == cd_thread[t].end_ts - cd_now
           IN  IF remain <= 0
               THEN cd_thread' = [cd_thread EXCEPT ![t].pc = "stamp"]
               ELSE cd_thread' = [cd_thread EXCEPT ![t].pc = "sleep",
                                                  ![t].wake = cd_now + 1]
        /\ UNCHANGED <<cd_now, FBA_LAST_PRINT_TS, FBA_PRINT_LOCK, cd_cooldown>>

\* line 103: time.sleep(1) returns
Wake ==
    \E t \in DOMAIN cd_thread :
        /\ cd_thread[t].pc = "sleep"
        /\ cd_now >= cd_thread[t].wake
        /\ cd_thread' = [cd_thread EXCEPT ![t].pc = "loop"]
        /\ UNCHANGED <<cd_now, FBA_LAST_PRINT_TS, FBA_PRINT_LOCK, cd_cooldown>>

\* lines 93-94: the time stamp is set from a second reading of the clock,
\* and the return releases the lock
Stamp ==
    \E t \in DOMAIN cd_thread :
        /\ cd_thread[t].pc = "stamp"
        /\ FBA_LAST_PRINT_TS' = cd_now
        /\ FBA_PRINT_LOCK' = 0
        /\ cd_thread' = [cd_thread EXCEPT ![t].pc = "post"]
        /\ UNCHANGED <<cd_now, cd_cooldown>>

\* lines 484-485: the POST to batchPrintLabels, made after
\* _fba_wait_cooldown has returned and without the lock
Submit ==
    \E t \in DOMAIN cd_thread :
        /\ cd_thread[t].pc = "post"
        /\ cd_thread' = [cd_thread EXCEPT ![t].pc = "polling", ![t].post = cd_now]
        /\ UNCHANGED <<cd_now, FBA_LAST_PRINT_TS, FBA_PRINT_LOCK, cd_cooldown>>

-----------------------------------------------------------------------------
(* Claim about the cooldown *)

Submitted == {t \in DOMAIN cd_thread : cd_thread[t].post >= 0}

\* C24: whatever the interleaving of the threads that call
\* fba_download_labels_for_file with cooldown c, any two submissions to
\* batchPrintLabels are at least c seconds apart.
C24_SubmissionsApart ==
    \A t, u \in Submitted :
        (t # u /\ cd_thread[t].post <= cd_thread[u].post) =>
            cd_thread[u].post - cd_thread[t].post >= cd_cooldown

-----------------------------------------------------------------------------
(* The identifier columns: build_data_rows_from_file1 (lines 1238-1239 and  *)
(* 1279-1280), rebuild_main_sheet_with_data (1146-1186) and                *)
(* read_fba_ids_from_split_xlsx (192-234)                                  *)

MaxIdRows == 2      \* rows of one supplier group

\* the empty cell as read_excel gives it, the float NaN
NaNCell == <<"NaN">>

\* names of columns: of file 1 (lines 1238-1239) and of the template
N_fba_no == <<"FBA", "huojian", "bianhao">>
N_fba_id == <<"FBA", SP, "ID">>
N_tf == <<"TF", "diaobodan">>
N_reference_id == <<"Reference", SP, "ID">>
N_sku == <<"SKU">>

FbaCandidates == <<N_fba_no, N_fba_id, <<"FBA", "huojian", "ID">>, <<"FBA", "huojianhao">>>>
RefCandidates ==
    <<N_tf, <<"TF", "diaobodan", "hao">>, <<"diaobodan", "hao">>, <<"TF", "danhao">>,
      <<"diaobodan">>, N_reference_id, <<"cankao", "danhao">>>>

\* lines 815-822: exact names only, candidates outermost
find_col_exact(columns, candidates) ==
    find_pass([i \in 1..Len(columns) |-> strip(columns[i])], candidates, TRUE, 1)

\* str.upper(), unit by unit
upper_unit(u) ==
    CASE u = "fba" -> "FBA"
      [] u = "tf" -> "TF"
      [] u = "nan" -> "NAN"
      [] u = "x" -> "X"
      [] OTHER -> u
upper(t) == [i \in 1..Len(t) |-> upper_unit(t[i])]

\* lines 866-879: None, NaN, blank text and the text "nan" in any case
\* give ""
norm_id_value(v) ==
    IF v = NaNCell THEN <<>>
    ELSE LET t == strip(v)
         IN  IF t = <<>> \/ upper(t) = <<"NAN">> THEN <<>> ELSE t

\* a plausible slip: each identifier under the header of its own name
id_cells_by_own_name(columns, r) ==
    LET fba_col == find_col_exact(columns, FbaCandidates)
        ref_col == find_col_exact(columns, RefCandidates)
    IN  [fba_id |-> IF fba_col.found THEN norm_id_value(CellAt(columns, r, fba_col.col)) ELSE <<>>,
         reference_id |-> IF ref_col.found THEN norm_id_value(CellAt(columns, r, ref_col.col)) ELSE <<>>]

\* lines 1238-1239 and 1279-1280: the entries "FBA ID" and "Reference ID" of
\* a data row; "FBA ID" takes the transfer-order cell and "Reference ID" the
\* FBA shipment number
id_cells(columns, r) ==
    LET fba_col == find_col_exact(columns, FbaCandidates)
        ref_col == find_col_exact(columns, RefCandidates)
    IN  [fba_id |-> IF ref_col.found THEN norm_id_value(CellAt(columns, r, ref_col.col)) ELSE <<>>,
         reference_id |-> IF fba_col.found THEN norm_id_value(CellAt(columns, r, fba_col.col)) ELSE <<>>]

\* lines 1146-1186: a row of the rebuilt sheet, by header; setv writes the
\* two identifiers under the headers "FBA ID" and "Reference ID", every
\* other cell of these rows is written from another entry or left empty
sheet_row(headers, data_row) ==
    [c \in 1..Len(headers) |->
        IF strip(headers[c]) = N_fba_id THEN data_row.fba_id
        ELSE IF strip(headers[c]) = N_reference_id THEN data_row.reference_id
        ELSE <<>>]

\* lines 1157-1194: the data rows, then the total row, whose cells are empty
\* outside the SUM columns
rebuilt_rows(headers, columns, rows) ==
    [i \in 1..(Len(rows) + 1) |->
        IF i <= Len(rows) THEN sheet_row(headers, id_cells(columns, rows[i]))
        ELSE [c \in 1..Len(headers) |-> <<>>]]

\* lines 203-214: the first column of an exact name, else the first whose
\* lower-cased name contains "reference"; 0 stands for no column
reference_column(headers) ==
    LET cols == [c \in 1..Len(headers) |-> strip(headers[c])]
        exact == {c \in 1..Len(cols) :
                    cols[c] \in {N_reference_id, <<"Reference", "_", "ID">>,
                                 <<"reference", "_", "id">>, <<"cankao", "danhao">>,
                                 <<"Reference", "Id">>}}
        loose == {c \in 1..Len(cols) :
                    \E u \in Range(cols[c]) : u \in {"Reference", "reference"}}
    IN  IF exact # {} THEN Min(exact)
        ELSE IF loose # {} THEN Min(loose)
        ELSE 0

\* lines 218-225: the upper-cased, stripped cells that contain "FBA"
RECURSIVE fba_ids_of(_, _)
fba_ids_of(sheet, col) ==
    IF sheet = <<>> THEN <<>>
    ELSE LET init == fba_ids_of(SubSeq(sheet, 1, Len(sheet) - 1), col)
             su == upper(strip(sheet[Len(sheet)][col]))
         IN  IF su # <<>> /\ str_contains(su, <<"FBA">>) THEN Append(init, su) ELSE init

\* lines 192-234
read_fba_ids_from_split_xlsx(headers, sheet) ==
    LET cand == reference_column(headers)
    IN  IF cand = 0 THEN <<>> ELSE first_seen(fba_ids_of(sheet, cand))

\* the columns of file 1 that matter here, in several orders, and the cells
\* under them
IdColumnLayouts ==
    {<<N_fba_no, N_tf>>,
     <<N_tf, N_fba_id>>,
     <<N_fba_id, N_fba_no>>,
     <<N_reference_id, N_sku>>,
     <<N_sku>>}

FbaCells ==
    {<<"FBA", "15">>, <<"fba", "15">>, <<SP, "FBA", "16", SP>>, <<"x", "9">>, NaNCell}
TfCells == {<<"TF", "001">>, <<"tf", "002">>, NaNCell}

IdCellsUnder(h) ==
    CASE h = N_fba_no -> FbaCells
      [] h = N_fba_id -> FbaCells
      [] h = N_tf -> TfCells
      [] h = N_reference_id -> TfCells
      [] h = N_sku -> {<<"SKU", "1">>}

RECURSIVE IdRows(_)
IdRows(columns) ==
    IF columns = <<>> THEN {<<>>}
    ELSE {Append(r, c) : r \in IdRows(SubSeq(columns, 1, Len(columns) - 1)),
                         c \in IdCellsUnder(columns[Len(columns)])}

\* row 1 of the template: the two identifier headers in either order, among
\* other headers
TemplateHeaders ==
    {<<N_sku, N_fba_id, N_reference_id>>,
     <<N_reference_id, N_sku, N_fba_id>>}

InitIds ==
    /\ id_columns \in IdColumnLayouts
    /\ id_rows \in UNION {[1..n -> IdRows(id_columns)] : n \in 1..MaxIdRows}
    /\ id_headers \in TemplateHeaders
    /\ id_pc = "build"
    /\ id_sheet = <<>>
    /\ id_ids = <<>>

InitIdsIdle ==
    /\ id_columns = <<>>
    /\ id_rows = <<>>
    /\ id_headers = <<>>
    /\ id_pc = "off"
    /\ id_sheet = <<>>
    /\ id_ids = <<>>

\* lines 1421-1469: the data rows are built, written into the sheet and the
\* workbook is saved
SaveSplitWorkbook ==
    /\ id_pc = "build"
    /\ id_sheet' = rebuilt_rows(id_headers, id_columns, id_rows)
    /\ id_pc' = "saved"
    /\ UNCHANGED <<id_columns, id_rows, id_headers, id_ids>>

\* the call of read_fba_ids_from_split_xlsx on the saved workbook
ReadFbaIds ==
    /\ id_pc = "saved"
    /\ id_ids' = read_fba_ids_from_split_xlsx(id_headers, id_sheet)
    /\ id_pc' = "read"
    /\ UNCHANGED <<id_columns, id_rows, id_headers, id_sheet>>

-----------------------------------------------------------------------------
(* Claim about the column "Reference ID" *)

\* the FBA shipment number of a row of file 1, upper-cased and stripped, and
\* its transfer-order number; <<>> when file 1 has no such column
FbaNumber(r) ==
    LET named == {k \in 1..Len(FbaCandidates) :
                     \E c \in 1..Len(id_columns) : id_columns[c] = FbaCandidates[k]}
    IN  IF named = {} THEN <<>>
        ELSE LET col == CHOOSE c \in 1..Len(id_columns) :
                            id_columns[c] = FbaCandidates[Min(named)]
             IN  IF r[col] = NaNCell THEN <<>> ELSE upper(strip(r[col]))
TfNumbers ==
    UNION {{upper(strip(id_rows[i][c])) :
                c \in {d \in 1..Len(id_columns) :
                          id_columns[d] \in Range(RefCandidates) /\ id_rows[i][d] # NaNCell}} :
           i \in 1..Len(id_rows)}
FirstRowOf(x) == Min({i \in 1..Len(id_rows) : FbaNumber(id_rows[i]) = x})

\* C25: the column "Reference ID" of the produced workbook holds the FBA
\* shipment number of each row, so read_fba_ids_from_split_xlsx returns
\* exactly the distinct upper-cased FBA shipment numbers of the group's rows
\* that contain "FBA", in the order of their first appearance, and never a
\* transfer-order number.
C25_ReferenceIdCarriesFba ==
    id_pc = "read" =>
        /\ \A i \in 1..Len(id_rows) :
              \E c \in 1..Len(id_headers) :
                  /\ strip(id_headers[c]) = N_reference_id
                  /\ upper(id_sheet[i][c]) = FbaNumber(id_rows[i])
        /\ Range(id_ids) =
              {x \in {FbaNumber(id_rows[i]) : i \in 1..Len(id_rows)} :
                  str_contains(x, <<"FBA">>)}
        /\ \A j, k \in 1..Len(id_ids) :
              j < k => /\ id_ids[j] # id_ids[k]
                       /\ FirstRowOf(id_ids[j]) < FirstRowOf(id_ids[k])
        /\ Range(id_ids) \cap TfNumbers = {}

\* two rows with one shipment number in two spellings after a row with
\* another, in a file that has a transfer-order column as well
C25_Witness ==
    /\ id_pc = "read"
    /\ id_columns = <<N_tf, N_fba_id>>
    /\ Len(id_rows) = 2
    /\ id_rows[1][2] = <<SP, "FBA", "16", SP>>
    /\ id_rows[2][2] = <<"fba", "15">>
    /\ id_rows[1][1] = <<"TF", "001">>
    /\ id_ids = <<<<"FBA", "16">>, <<"FBA", "15">>>>

-----------------------------------------------------------------------------
(* App._start, lines 1752-1820: the run button, the worker thread and the  *)
(* callbacks it hands to the Tk event loop                                 *)

MaxClicks == 2      \* clicks that invoke _start
MaxOuts == 2        \* workbooks process_file returns

Callback(cb, t) == [cb |-> cb, t |-> t]

\* what process_file does in the worker: raises, returns [] or returns n
\* paths; and the label download of lines 1791-1807: switched off, skipped
\* for a missing token or cookie, raising outside the loop over the files,
\* or run once per file
Outcomes ==
    {[kind |-> "raised", n |-> 0, labels |-> "off"],
     [kind |-> "empty", n |-> 0, labels |-> "off"]}
    \cup [kind : {"outs"}, n : 1..MaxOuts, labels : {"off", "no_token", "module_raises", "on"}]

\* a plausible slip: the button left as it is when the worker is started
btn_after_start_left_normal == "normal"

\* line 1759
btn_after_start == "disabled"

InitUi ==
    /\ run_btn = "normal"
    /\ ui_threads = <<>>
    /\ ui_after = <<>>
    /\ ui_clicks = 0

InitUiIdle ==
    /\ run_btn = "off"
    /\ ui_threads = <<>>
    /\ ui_after = <<>>
    /\ ui_clicks = 0

\* lines 1753-1757: a click on the button in state "normal" (a disabled
\* button does not invoke its command); _validate_inputs raises, the error
\* is shown and _start returns
StartInvalid ==
    /\ run_btn = "normal"
    /\ ui_clicks < MaxClicks
    /\ ui_clicks' = ui_clicks + 1
    /\ UNCHANGED <<run_btn, ui_threads, ui_after>>

\* lines 1759-1820: the button is disabled and the worker thread is started
Start ==
    /\ run_btn = "normal"
    /\ ui_clicks < MaxClicks
    /\ ui_clicks' = ui_clicks + 1
    /\ run_btn' = btn_after_start
    /\ ui_threads' = Append(ui_threads, [pc |-> "process_file", out |-> "none", todo |-> 0])
    /\ UNCHANGED ui_after

\* lines 1773-1788 and 1813-1816: process_file returns or raises
WorkerProcessFile ==
    \E t \in DOMAIN ui_threads : \E o \in Outcomes :
        /\ ui_threads[t].pc = "process_file"
        /\ CASE o.kind = "raised" ->
                  /\ ui_threads' = [ui_threads EXCEPT ![t] = [pc |-> "finally", out |-> "raised", todo |-> 0]]
                  /\ ui_after' = Append(ui_after, Callback("showerror", t))
             [] o.kind = "empty" ->
                  /\ ui_threads' = [ui_threads EXCEPT ![t] = [pc |-> "finally", out |-> "empty", todo |-> 0]]
                  /\ ui_after' = Append(ui_after, Callback("showinfo", t))
             [] o.kind = "outs" /\ o.labels = "off" ->
                  /\ ui_threads' = [ui_threads EXCEPT ![t] = [pc |-> "done", out |-> "outs", todo |-> 0]]
                  /\ UNCHANGED ui_after
             [] o.kind = "outs" /\ o.labels \in {"no_token", "module_raises"} ->
                  /\ ui_threads' = [ui_threads EXCEPT ![t] = [pc |-> "done", out |-> o.labels, todo |-> 0]]
                  /\ ui_after' = Append(ui_after, Callback("log", t))
             [] o.kind = "outs" /\ o.labels = "on" ->
                  /\ ui_threads' = [ui_threads EXCEPT ![t] = [pc |-> "labels", out |-> "outs", todo |-> o.n]]
                  /\ UNCHANGED ui_after
        /\ UNCHANGED <<run_btn, ui_clicks>>

\* lines 1804-1808: fba_download_labels_for_file for one path; it returns,
\* or raises and the failure is logged
WorkerLabel ==
    \E t \in DOMAIN ui_threads : \E ok \in BOOLEAN :
        /\ ui_threads[t].pc = "labels"
        /\ ui_threads[t].todo > 0
        /\ ui_threads' = [ui_threads EXCEPT
                             ![t].todo = @ - 1,
                             ![t].out = IF ok THEN @ ELSE "label_failed"]
        /\ ui_after' = IF ok THEN ui_after ELSE Append(ui_after, Callback("log", t))
        /\ UNCHANGED <<run_btn, ui_clicks>>

\* line 1812: the message that the files were generated is queued
WorkerDone ==
    \E t \in DOMAIN ui_threads :
        /\ \/ ui_threads[t].pc = "done"
           \/ ui_threads[t].pc = "labels" /\ ui_threads[t].todo = 0
        /\ ui_threads' = [ui_threads EXCEPT ![t].pc = "finally"]
        /\ ui_after' = Append(ui_after, Callback("showinfo", t))
        /\ UNCHANGED <<run_btn, ui_clicks>>

\* lines 1817-1818: the finally block queues the callback that enables the
\* button, and the thread ends
WorkerFinally ==
    \E t \in DOMAIN ui_threads :
        /\ ui_threads[t].pc = "finally"
        /\ ui_threads' = [ui_threads EXCEPT ![t].pc = "exited"]
        /\ ui_after' = Append(ui_after, Callback("enable", t))
        /\ UNCHANGED <<run_btn, ui_clicks>>

\* the Tk event loop runs the oldest queued callback
EventLoop ==
    /\ ui_after # <<>>
    /\ ui_after' = Tail(ui_after)
    /\ run_btn' = IF Head(ui_after).cb = "enable" THEN "normal" ELSE run_btn
    /\ UNCHANGED <<ui_threads, ui_clicks>>

-----------------------------------------------------------------------------
(* Claim about the worker thread *)

Running == {t \in DOMAIN ui_threads : ui_threads[t].pc # "exited"}
EnablePending(t) ==
    \/ t \in Running
    \/ \E k \in 1..Len(ui_after) : ui_after[k] = Callback("enable", t)

OneWorkerButtonDisabled ==
    /\ Cardinality(Running) <= 1
    /\ \A t \in DOMAIN ui_threads : EnablePending(t) => run_btn = "disabled"

\* C26: at most one worker thread runs at any time: from the start of a
\* worker until the callback of its finally block has run the button is
\* disabled, and after every outcome of the worker the button is enabled
\* again at some later time.
C26_SingleWorker ==
    /\ []OneWorkerButtonDisabled
    /\ (run_btn = "disabled") ~> (run_btn = "normal")

\* a second worker, downloading labels with the button disabled, after a
\* first whose process_file raised
C26_Witness ==
    /\ Len(ui_threads) = 2
    /\ ui_threads[1] = [pc |-> "exited", out |-> "raised", todo |-> 0]
    /\ ui_threads[2].pc = "labels"
    /\ ui_threads[2].out = "label_failed"
    /\ run_btn = "disabled"

-----------------------------------------------------------------------------
(* fba_download_labels_for_file, lines 491-538: the baseline of the         *)
(* download list, the polling loop and the choice of the archive           *)

MaxListRows == 2        \* rows of one download list
MaxPollTimeout == 2     \* the largest poll_timeout_sec
MaxPollInterval == 1    \* the largest poll_interval_sec

ZIP_PREFIX == "FBA_SHIPMENT_"
ZIP_SUFFIX == ".zip"
lookback_sec == 180

\* line 500, in seconds since submit_time
earliest == 0 - lookback_sec

\* the rows of a download list, each with an id; timed tells
\* whether _parse_row_time returns a time, t is that time in seconds since
\* submit_time.  Every row has a file name (_extract_download_rows, line 172)
NoId == ""              \* the id of a row without id, and of no row
GoodName == <<ZIP_PREFIX, "a", ".zip">>
FileNames ==
    {GoodName, <<ZIP_PREFIX, "a", ".ZIP">>, <<"fba_shipment_", "a", ".zip">>,
     <<ZIP_PREFIX, "a", ".pdf">>}
DownloadRows ==
    [id : {"1"}, fileName : {GoodName}, timed : {TRUE}, t : {earliest}]
    \cup [id : {"3"}, fileName : {<<ZIP_PREFIX, "a", ".ZIP">>}, timed : {TRUE}, t : {5}]
    \cup [id : {"2"}, fileName : {GoodName}, timed : {FALSE}, t : {0}]
    \cup [id : {"3"}, fileName : FileNames \ {GoodName}, timed : {TRUE}, t : {5}]
    \cup [id : {"3"}, fileName : {GoodName}, timed : {TRUE}, t : {earliest - 1}]
    \cup [id : {"x"}, fileName : {GoodName}, timed : {TRUE}, t : {5}]
DownloadLists == UNION {[1..n -> DownloadRows] : n \in 0..MaxListRows}

NoRow == [id |-> NoId, fileName |-> <<>>, timed |-> FALSE, t |-> 0]

\* what a GET of the download list gives: session.request raises, or a
\* status and the rows of the body, after d seconds
Responses ==
    {[kind |-> "raises", status |-> 0, rows |-> <<>>, d |-> 0]}
    \cup [kind : {"status"}, status : {199, 299, 300}, rows : {<<>>}, d : {0}]
    \cup [kind : {"status"}, status : {200}, rows : DownloadLists, d : {0, 1}]

\* lines 496 and 506
status_ok(st) == ~(st < 200 \/ st >= 300)

\* int(x.get("id") or 0), line 522; int raises ValueError on other text
is_int(id) == id \in {"1", "2", "3"}
int_id(id) ==
    CASE id = "1" -> 1
      [] id = "2" -> 2
      [] id = "3" -> 3
      [] OTHER -> 0

\* lines 176-178
is_target_zip(row) ==
    LET fn == row.fileName
    IN  /\ fn # <<>>
        /\ fn[1] = ZIP_PREFIX
        /\ lower(fn)[Len(fn)] = ZIP_SUFFIX

\* lines 510-520
is_candidate(r, base) ==
    /\ r.id # NoId
    /\ r.id \notin base
    /\ is_target_zip(r)
    /\ ~(r.timed /\ r.t < earliest)

\* a plausible slip: the sort of line 522 without reverse=True
pick_smallest_id(candidates) ==
    candidates[Min({k \in 1..Len(candidates) :
                      \A j \in 1..Len(candidates) :
                          int_id(candidates[k].id) <= int_id(candidates[j].id)})]

\* lines 522-523: the first row after a stable sort by id, largest first
pick(candidates) ==
    candidates[Min({k \in 1..Len(candidates) :
                      \A j \in 1..Len(candidates) :
                          int_id(candidates[j].id) <= int_id(candidates[k].id)})]

\* a plausible slip: no test of picked after the loop
after_loop_untested(p) == "download"

\* lines 527-530
after_loop(p) == IF p = NoRow THEN "TimeoutError" ELSE "download"

\* line 525
sleep_seconds(poll_interval_sec) == Max({1, poll_interval_sec})

InitPoll ==
    /\ pl_pc = "baseline"
    /\ pl_now = 0
    /\ pl_args \in [poll_interval_sec : 0..MaxPollInterval, poll_timeout_sec : 0..MaxPollTimeout]
    /\ pl_deadline = 0
    /\ base_ids = {}
    /\ pl_rows = <<>>
    /\ picked = NoRow

InitPollIdle ==
    /\ pl_pc = "off"
    /\ pl_now = 0
    /\ pl_args = [poll_interval_sec |-> 0, poll_timeout_sec |-> 0]
    /\ pl_deadline = 0
    /\ base_ids = {}
    /\ pl_rows = <<>>
    /\ picked = NoRow

\* lines 495-502: the baseline list; base_ids holds the ids of its rows
Baseline ==
    /\ pl_pc = "baseline"
    /\ \E resp \in Responses :
          IF resp.kind = "raises"
          THEN /\ pl_pc' = "RequestException"
               /\ UNCHANGED <<pl_now, pl_deadline, base_ids>>
          ELSE IF ~status_ok(resp.status)
          THEN /\ pl_pc' = "RuntimeError"
               /\ UNCHANGED <<pl_now, pl_deadline, base_ids>>
          ELSE /\ base_ids' = {resp.rows[k].id : k \in {j \in 1..Len(resp.rows) : resp.rows[j].id # NoId}}
               /\ pl_now' = pl_now + resp.d
               /\ pl_deadline' = pl_now + resp.d + pl_args.poll_timeout_sec
               /\ pl_pc' = "loop"
    /\ UNCHANGED <<pl_args, pl_rows, picked>>

\* line 504, and lines 527-528 when the test fails
LoopCondition ==
    /\ pl_pc = "loop"
    /\ pl_pc' = IF pl_now < pl_deadline THEN "request" ELSE after_loop(picked)
    /\ UNCHANGED <<pl_now, pl_args, pl_deadline, base_ids, pl_rows, picked>>

\* lines 505-524: one request of the list; a row is picked and the loop is
\* left (then lines 527-530), or the thread goes to sleep
Poll ==
    /\ pl_pc = "request"
    /\ \E resp \in Responses :
          IF resp.kind = "raises"
          THEN /\ pl_pc' = "RequestException"
               /\ UNCHANGED <<pl_now, pl_rows, picked>>
          ELSE IF ~status_ok(resp.status)
          THEN /\ pl_pc' = "RuntimeError"
               /\ UNCHANGED <<pl_now, pl_rows, picked>>
          ELSE LET candidates == SelectSeq(resp.rows, LAMBDA r : is_candidate(r, base_ids))
               IN  /\ pl_now' = pl_now + resp.d
                   /\ IF candidates = <<>>
                      THEN pl_pc' = "sleep" /\ UNCHANGED <<pl_rows, picked>>
                      ELSE IF \E k \in 1..Len(candidates) : ~is_int(candidates[k].id)
                      THEN pl_pc' = "ValueError" /\ UNCHANGED <<pl_rows, picked>>
                      ELSE /\ pl_rows' = resp.rows
                           /\ picked' = pick(candidates)
                           /\ pl_pc' = after_loop(pick(candidates))
    /\ UNCHANGED <<pl_args, pl_deadline, base_ids>>

\* line 525
Sleep ==
    /\ pl_pc = "sleep"
    /\ pl_now' = pl_now + sleep_seconds(pl_args.poll_interval_sec)
    /\ pl_pc' = "loop"
    /\ UNCHANGED <<pl_args, pl_deadline, base_ids, pl_rows, picked>>

-----------------------------------------------------------------------------
(* Claims about the polling loop *)

\* the conditions of the claim on a row; exact tells whether the end of the
\* file name is compared as written or in lower case
Qualifies(r, exact) ==
    /\ r.id # NoId
    /\ r.id \notin base_ids
    /\ r.fileName[1] = ZIP_PREFIX
    /\ IF exact THEN r.fileName[Len(r.fileName)] = ZIP_SUFFIX
                ELSE lower(r.fileName)[Len(r.fileName)] = ZIP_SUFFIX
    /\ r.timed => r.t >= earliest

LargestOf(exact) ==
    \A k \in 1..Len(pl_rows) :
        (Qualifies(pl_rows[k], exact) /\ is_int(pl_rows[k].id)) =>
            int_id(pl_rows[k].id) <= int_id(picked.id)

\* C27 as stated: the archive that is downloaded is a row that was not in
\* the baseline list, whose file name starts with FBA_SHIPMENT_ and ends
\* with .zip, whose request time, when it has one, is not earlier than the
\* submission minus lookback_sec, and it has the largest id of such rows of
\* its poll.
C27_PickedArchive ==
    pl_pc = "download" => Qualifies(picked, TRUE) /\ LargestOf(TRUE)

\* C27, amended: the same, with the end of the file name compared in lower
\* case, so that a name ending in .ZIP is picked as well.
C27_PickedArchiveAnyCase ==
    pl_pc = "download" => Qualifies(picked, FALSE) /\ LargestOf(FALSE)

\* two new archives in one poll, the larger id second and with a name in
\* upper case, and a baseline that holds another id
C27_Witness ==
    /\ pl_pc = "download"
    /\ base_ids = {"1"}
    /\ Len(pl_rows) = 2
    /\ pl_rows[1].id = "2" /\ Qualifies(pl_rows[1], FALSE)
    /\ pl_rows[2].id = "3" /\ pl_rows[2].fileName = <<ZIP_PREFIX, "a", ".ZIP">>
    /\ picked = pl_rows[2]

-----------------------------------------------------------------------------
(* fba_download_labels_for_file, lines 303-478: the mapping id_to_qty over   *)
(* the rows of the split workbook and the print quantity of each task       *)

MaxQtyRows == 2         \* rows of the split workbook
MaxGridRows == 1        \* rows of the shipment grid

\* the identifier cells, as text units; <<>> is a cell without text
IdTexts == {<<>>, <<"nan">>, <<"fba", "15">>, <<"FBA", "15">>, <<"tf", "9">>}

\* the columns of the table and the cells of a row next to the identifier
QtyLayout == <<"id", "qty", "ship", "box">>
QtyCells ==
    {row \in RowsOfLayout(QtyLayout) :
        /\ row[1] = Txt("fba15abc")
        /\ row[2] \in {Absent, Num(0, 1), Num(7, 1)}
        /\ row[3] = Num(120, 1)
        /\ row[4] \in {Absent, Num(25, 1)}}

\* lines 355-358: the rows that add nothing to id_to_qty
has_id(t) == t # <<>> /\ lower(t) \notin {<<"nan">>, <<"none">>}

\* a plausible slip: the carton counts of the rows of one identifier added up
store_summed(map, key, v) ==
    [k \in DOMAIN map \cup {key} |->
        IF k = key THEN (IF key \in DOMAIN map THEN map[key] + v ELSE v) ELSE map[k]]

\* line 417: id_to_qty[key] = int(qval)
store(map, key, v) ==
    [k \in DOMAIN map \cup {key} |-> IF k = key THEN v ELSE map[k]]

\* lines 222-233 on the rows read: the identifiers that hold FBA, in upper case
wanted == {pq_log[i].key : i \in {j \in 1..Len(pq_log) : pq_log[j].key # <<>> /\ pq_log[j].key[1] = "FBA"}}

\* the rows of the grid: the shipment and the first of the quantity fields
\* of line 452 that is not None, 0 or ""
GridSids == {<<"fba", "15">>, <<"FBA", "15">>, <<"FBA", "16">>}
GridQuantities == {Absent, Num(0, 1), Num(4, 1), Num(-2, 1), Num(5, 2), Txt("abc")}

\* lines 452-456: `... or 1`, then max(1, int(str(qty).strip())), and 1 when
\* int raises (text that is no integer numeral, as "2.5")
api_quantity(c) ==
    IF c.k = "num" /\ c.d = 1 /\ c.n # 0 THEN Max({1, c.n}) ELSE 1

\* lines 447-456
print_quantity(map, sid_key, c) ==
    IF sid_key \in DOMAIN map THEN map[sid_key] ELSE api_quantity(c)

InitQty ==
    /\ pq_pc = "rows"
    /\ pq_df \in BOOLEAN
    /\ pq_log = <<>>
    /\ id_to_qty = [k \in {} |-> 0]
    /\ tasks = <<>>

InitQtyIdle ==
    /\ pq_pc = "off"
    /\ pq_df = FALSE
    /\ pq_log = <<>>
    /\ id_to_qty = [k \in {} |-> 0]
    /\ tasks = <<>>

\* lines 351-417 for one row of the table
ReadQtyRow ==
    /\ pq_pc = "rows"
    /\ Len(pq_log) < MaxQtyRows
    /\ \E id \in IdTexts, cells \in QtyCells :
          LET key == upper(strip(id))
              count == carton_count(QtyLayout, cells)
          IN  /\ pq_log' = Append(pq_log, [key |-> key, count |-> count])
              /\ id_to_qty' = IF pq_df /\ has_id(strip(id)) THEN store(id_to_qty, key, count)
                              ELSE id_to_qty
    /\ UNCHANGED <<pq_pc, pq_df, tasks>>

\* lines 420-424 and 426-431: no identifiers, or the query of the grid
EndOfRows ==
    /\ pq_pc = "rows"
    /\ pq_pc' = IF wanted = {} THEN "no_ids" ELSE "grid"
    /\ UNCHANGED <<pq_df, pq_log, id_to_qty, tasks>>

\* lines 435-475 for one row of the grid
GridRow ==
    /\ pq_pc = "grid"
    /\ Len(tasks) < MaxGridRows
    /\ \E sid \in GridSids, c \in GridQuantities :
          LET sid_key == upper(strip(sid))
          IN  tasks' = IF sid_key \in wanted
                       THEN Append(tasks, [sid_key |-> sid_key,
                                           printQuantity |-> print_quantity(id_to_qty, sid_key, c)])
                       ELSE tasks
    /\ UNCHANGED <<pq_pc, pq_df, pq_log, id_to_qty>>

\* lines 477-485
SubmitTasks ==
    /\ pq_pc = "grid"
    /\ pq_pc' = IF tasks = <<>> THEN "RuntimeError" ELSE "submitted"
    /\ UNCHANGED <<pq_df, pq_log, id_to_qty, tasks>>

-----------------------------------------------------------------------------
(* Claims about the print quantity *)

\* the rows of the table that hold the identifier, and the last of them
RowsOfKey(key) == {i \in 1..Len(pq_log) : pq_log[i].key = key}

-----------------------------------------------------------------------------
vars == <<splitVars, rebuildVars, runVars, fuzzyVars, labelVars, buildVars, configVars, exportVars, cooldownVars, idVars, uiVars, pollVars, qtyVars>>

InitSplit ==
    /\ df1 \in UNION {[1..n -> Rows] : n \in 0..MaxRows}
    /\ InitSplitVars
    /\ InitRebuildIdle
    /\ InitRunIdle
    /\ InitFuzzyIdle
    /\ InitLabelIdle
    /\ InitBuildIdle
    /\ InitConfigIdle
    /\ InitExportIdle
    /\ InitCooldownIdle
    /\ InitIdsIdle
    /\ InitUiIdle
    /\ InitPollIdle
    /\ InitQtyIdle

NextSplit ==
    \/ (Classify /\ UNCHANGED <<rebuildVars, runVars, fuzzyVars, labelVars, buildVars, configVars, exportVars, cooldownVars, idVars, uiVars, pollVars, qtyVars>>)
    \/ (Group /\ UNCHANGED <<rebuildVars, runVars, fuzzyVars, labelVars, buildVars, configVars, exportVars, cooldownVars, idVars, uiVars, pollVars, qtyVars>>)
    \/ (ProcessGroup /\ UNCHANGED <<rebuildVars, runVars, fuzzyVars, labelVars, buildVars, configVars, exportVars, cooldownVars, idVars, uiVars, pollVars, qtyVars>>)
    \/ (Return /\ UNCHANGED <<rebuildVars, runVars, fuzzyVars, labelVars, buildVars, configVars, exportVars, cooldownVars, idVars, uiVars, pollVars, qtyVars>>)

SpecSplit == InitSplit /\ [][NextSplit]_vars

InitRebuildOnly ==
    /\ InitRebuild
    /\ InitSplitIdle
    /\ InitRunIdle
    /\ InitFuzzyIdle
    /\ InitLabelIdle
    /\ InitBuildIdle
    /\ InitConfigIdle
    /\ InitExportIdle
    /\ InitCooldownIdle
    /\ InitIdsIdle
    /\ InitUiIdle
    /\ InitPollIdle
    /\ InitQtyIdle

NextRebuild == Rebuild /\ UNCHANGED <<splitVars, runVars, fuzzyVars, labelVars, buildVars, configVars, exportVars, cooldownVars, idVars, uiVars, pollVars, qtyVars>>

SpecRebuild == InitRebuildOnly /\ [][NextRebuild]_vars

InitRunOnly ==
    /\ InitRun
    /\ InitSplitIdle
    /\ InitRebuildIdle
    /\ InitFuzzyIdle
    /\ InitLabelIdle
    /\ InitBuildIdle
    /\ InitConfigIdle
    /\ InitExportIdle
    /\ InitCooldownIdle
    /\ InitIdsIdle
    /\ InitUiIdle
    /\ InitPollIdle
    /\ InitQtyIdle

NextRun ==
    \/ (StartRun /\ UNCHANGED <<splitVars, rebuildVars, fuzzyVars, labelVars, buildVars, configVars, exportVars, cooldownVars, idVars, uiVars, pollVars, qtyVars>>)
    \/ (SaveGroup /\ UNCHANGED <<splitVars, rebuildVars, fuzzyVars, labelVars, buildVars, configVars, exportVars, cooldownVars, idVars, uiVars, pollVars, qtyVars>>)
    \/ (GroupRaises /\ UNCHANGED <<splitVars, rebuildVars, fuzzyVars, labelVars, buildVars, configVars, exportVars, cooldownVars, idVars, uiVars, pollVars, qtyVars>>)
    \/ (WriteSummary /\ UNCHANGED <<splitVars, rebuildVars, fuzzyVars, labelVars, buildVars, configVars, exportVars, cooldownVars, idVars, uiVars, pollVars, qtyVars>>)
    \/ (SummaryFails /\ UNCHANGED <<splitVars, rebuildVars, fuzzyVars, labelVars, buildVars, configVars, exportVars, cooldownVars, idVars, uiVars, pollVars, qtyVars>>)
    \/ (NoSummary /\ UNCHANGED <<splitVars, rebuildVars, fuzzyVars, labelVars, buildVars, configVars, exportVars, cooldownVars, idVars, uiVars, pollVars, qtyVars>>)

SpecRun == InitRunOnly /\ [][NextRun]_vars

InitFuzzyOnly ==
    /\ InitFuzzy
    /\ InitSplitIdle
    /\ InitRebuildIdle
    /\ InitRunIdle
    /\ InitLabelIdle
    /\ InitBuildIdle
    /\ InitConfigIdle
    /\ InitExportIdle
    /\ InitCooldownIdle
    /\ InitIdsIdle
    /\ InitUiIdle
    /\ InitPollIdle
    /\ InitQtyIdle

NextFuzzy == Match /\ UNCHANGED <<splitVars, rebuildVars, runVars, labelVars, buildVars, configVars, exportVars, cooldownVars, idVars, uiVars, pollVars, qtyVars>>

SpecFuzzy == InitFuzzyOnly /\ [][NextFuzzy]_vars

InitLabelOnly ==
    /\ InitLabel
    /\ InitSplitIdle
    /\ InitRebuildIdle
    /\ InitRunIdle
    /\ InitFuzzyIdle
    /\ InitBuildIdle
    /\ InitConfigIdle
    /\ InitExportIdle
    /\ InitCooldownIdle
    /\ InitIdsIdle
    /\ InitUiIdle
    /\ InitPollIdle
    /\ InitQtyIdle

NextLabel ==
    \/ (SkipRow /\ UNCHANGED <<splitVars, rebuildVars, runVars, fuzzyVars, buildVars, configVars, exportVars, cooldownVars, idVars, uiVars, pollVars, qtyVars>>)
    \/ (RecordRow /\ UNCHANGED <<splitVars, rebuildVars, runVars, fuzzyVars, buildVars, configVars, exportVars, cooldownVars, idVars, uiVars, pollVars, qtyVars>>)

SpecLabel == InitLabelOnly /\ [][NextLabel]_vars

InitBuildOnly ==
    /\ InitBuild
    /\ InitSplitIdle
    /\ InitRebuildIdle
    /\ InitRunIdle
    /\ InitFuzzyIdle
    /\ InitLabelIdle
    /\ InitConfigIdle
    /\ InitExportIdle
    /\ InitCooldownIdle
    /\ InitIdsIdle
    /\ InitUiIdle
    /\ InitPollIdle
    /\ InitQtyIdle

NextBuild == BuildRows /\ UNCHANGED <<splitVars, rebuildVars, runVars, fuzzyVars, labelVars, configVars, exportVars, cooldownVars, idVars, uiVars, pollVars, qtyVars>>

SpecBuild == InitBuildOnly /\ [][NextBuild]_vars

InitConfigOnly ==
    /\ InitConfig
    /\ InitSplitIdle
    /\ InitRebuildIdle
    /\ InitRunIdle
    /\ InitFuzzyIdle
    /\ InitLabelIdle
    /\ InitBuildIdle
    /\ InitExportIdle
    /\ InitCooldownIdle
    /\ InitIdsIdle
    /\ InitUiIdle
    /\ InitPollIdle
    /\ InitQtyIdle

NextConfig ==
    \/ (FindCol /\ UNCHANGED <<splitVars, rebuildVars, runVars, fuzzyVars, labelVars, buildVars, exportVars, cooldownVars, idVars, uiVars, pollVars, qtyVars>>)
    \/ (LoadConfig /\ UNCHANGED <<splitVars, rebuildVars, runVars, fuzzyVars, labelVars, buildVars, exportVars, cooldownVars, idVars, uiVars, pollVars, qtyVars>>)

SpecConfig == InitConfigOnly /\ [][NextConfig]_vars

InitExportOnly ==
    /\ InitExport
    /\ InitSplitIdle
    /\ InitRebuildIdle
    /\ InitRunIdle
    /\ InitFuzzyIdle
    /\ InitLabelIdle
    /\ InitBuildIdle
    /\ InitConfigIdle
    /\ InitCooldownIdle
    /\ InitIdsIdle
    /\ InitUiIdle
    /\ InitPollIdle
    /\ InitQtyIdle

NextExport ==
    \/ (SkipSummary /\ UNCHANGED <<splitVars, rebuildVars, runVars, fuzzyVars, labelVars, buildVars, configVars, cooldownVars, idVars, uiVars, pollVars, qtyVars>>)
    \/ (ExportSummary /\ UNCHANGED <<splitVars, rebuildVars, runVars, fuzzyVars, labelVars, buildVars, configVars, cooldownVars, idVars, uiVars, pollVars, qtyVars>>)

SpecExport == InitExportOnly /\ [][NextExport]_vars

InitCooldownOnly ==
    /\ InitCooldown
    /\ InitSplitIdle
    /\ InitRebuildIdle
    /\ InitRunIdle
    /\ InitFuzzyIdle
    /\ InitLabelIdle
    /\ InitBuildIdle
    /\ InitConfigIdle
    /\ InitExportIdle
    /\ InitIdsIdle
    /\ InitUiIdle
    /\ InitPollIdle
    /\ InitQtyIdle

NextCooldown ==
    \/ (Tick /\ UNCHANGED <<splitVars, rebuildVars, runVars, fuzzyVars, labelVars, buildVars, configVars, exportVars, idVars, uiVars, pollVars, qtyVars>>)
    \/ (EnterLock /\ UNCHANGED <<splitVars, rebuildVars, runVars, fuzzyVars, labelVars, buildVars, configVars, exportVars, idVars, uiVars, pollVars, qtyVars>>)
    \/ (LoopTest /\ UNCHANGED <<splitVars, rebuildVars, runVars, fuzzyVars, labelVars, buildVars, configVars, exportVars, idVars, uiVars, pollVars, qtyVars>>)
    \/ (Wake /\ UNCHANGED <<splitVars, rebuildVars, runVars, fuzzyVars, labelVars, buildVars, configVars, exportVars, idVars, uiVars, pollVars, qtyVars>>)
    \/ (Stamp /\ UNCHANGED <<splitVars, rebuildVars, runVars, fuzzyVars, labelVars, buildVars, configVars, exportVars, idVars, uiVars, pollVars, qtyVars>>)
    \/ (Submit /\ UNCHANGED <<splitVars, rebuildVars, runVars, fuzzyVars, labelVars, buildVars, configVars, exportVars, idVars, uiVars, pollVars, qtyVars>>)

SpecCooldown == InitCooldownOnly /\ [][NextCooldown]_vars

InitIdsOnly ==
    /\ InitIds
    /\ InitSplitIdle
    /\ InitRebuildIdle
    /\ InitRunIdle
    /\ InitFuzzyIdle
    /\ InitLabelIdle
    /\ InitBuildIdle
    /\ InitConfigIdle
    /\ InitExportIdle
    /\ InitCooldownIdle
    /\ InitUiIdle
    /\ InitPollIdle
    /\ InitQtyIdle

NextIds ==
    \/ (SaveSplitWorkbook /\ UNCHANGED <<splitVars, rebuildVars, runVars, fuzzyVars, labelVars, buildVars, configVars, exportVars, cooldownVars, uiVars, pollVars, qtyVars>>)
    \/ (ReadFbaIds /\ UNCHANGED <<splitVars, rebuildVars, runVars, fuzzyVars, labelVars, buildVars, configVars, exportVars, cooldownVars, uiVars, pollVars, qtyVars>>)

SpecIds == InitIdsOnly /\ [][NextIds]_vars

InitUiOnly ==
    /\ InitUi
    /\ InitSplitIdle
    /\ InitRebuildIdle
    /\ InitRunIdle
    /\ InitFuzzyIdle
    /\ InitLabelIdle
    /\ InitBuildIdle
    /\ InitConfigIdle
    /\ InitExportIdle
    /\ InitCooldownIdle
    /\ InitIdsIdle
    /\ InitPollIdle
    /\ InitQtyIdle

NextUi ==
    \/ (StartInvalid /\ UNCHANGED <<splitVars, rebuildVars, runVars, fuzzyVars, labelVars, buildVars, configVars, exportVars, cooldownVars, idVars, pollVars, qtyVars>>)
    \/ (Start /\ UNCHANGED <<splitVars, rebuildVars, runVars, fuzzyVars, labelVars, buildVars, configVars, exportVars, cooldownVars, idVars, pollVars, qtyVars>>)
    \/ (WorkerProcessFile /\ UNCHANGED <<splitVars, rebuildVars, runVars, fuzzyVars, labelVars, buildVars, configVars, exportVars, cooldownVars, idVars, pollVars, qtyVars>>)
    \/ (WorkerLabel /\ UNCHANGED <<splitVars, rebuildVars, runVars, fuzzyVars, labelVars, buildVars, configVars, exportVars, cooldownVars, idVars, pollVars, qtyVars>>)
    \/ (WorkerDone /\ UNCHANGED <<splitVars, rebuildVars, runVars, fuzzyVars, labelVars, buildVars, configVars, exportVars, cooldownVars, idVars, pollVars, qtyVars>>)
    \/ (WorkerFinally /\ UNCHANGED <<splitVars, rebuildVars, runVars, fuzzyVars, labelVars, buildVars, configVars, exportVars, cooldownVars, idVars, pollVars, qtyVars>>)
    \/ (EventLoop /\ UNCHANGED <<splitVars, rebuildVars, runVars, fuzzyVars, labelVars, buildVars, configVars, exportVars, cooldownVars, idVars, pollVars, qtyVars>>)

SpecUi == InitUiOnly /\ [][NextUi]_vars

\* the operating system schedules the worker thread, and the Tk main loop
\* runs the callbacks queued with after
SpecUiFair ==
    /\ SpecUi
    /\ WF_vars(WorkerProcessFile /\ UNCHANGED <<splitVars, rebuildVars, runVars, fuzzyVars, labelVars, buildVars, configVars, exportVars, cooldownVars, idVars, pollVars, qtyVars>>)
    /\ WF_vars(WorkerLabel /\ UNCHANGED <<splitVars, rebuildVars, runVars, fuzzyVars, labelVars, buildVars, configVars, exportVars, cooldownVars, idVars, pollVars, qtyVars>>)
    /\ WF_vars(WorkerDone /\ UNCHANGED <<splitVars, rebuildVars, runVars, fuzzyVars, labelVars, buildVars, configVars, exportVars, cooldownVars, idVars, pollVars, qtyVars>>)
    /\ WF_vars(WorkerFinally /\ UNCHANGED <<splitVars, rebuildVars, runVars, fuzzyVars, labelVars, buildVars, configVars, exportVars, cooldownVars, idVars, pollVars, qtyVars>>)
    /\ WF_vars(EventLoop /\ UNCHANGED <<splitVars, rebuildVars, runVars, fuzzyVars, labelVars, buildVars, configVars, exportVars, cooldownVars, idVars, pollVars, qtyVars>>)

InitPollOnly ==
    /\ InitPoll
    /\ InitSplitIdle
    /\ InitRebuildIdle
    /\ InitRunIdle
    /\ InitFuzzyIdle
    /\ InitLabelIdle
    /\ InitBuildIdle
    /\ InitConfigIdle
    /\ InitExportIdle
    /\ InitCooldownIdle
    /\ InitIdsIdle
    /\ InitUiIdle
    /\ InitQtyIdle

NextPoll ==
    \/ (Baseline /\ UNCHANGED <<splitVars, rebuildVars, runVars, fuzzyVars, labelVars, buildVars, configVars, exportVars, cooldownVars, idVars, uiVars, qtyVars>>)
    \/ (LoopCondition /\ UNCHANGED <<splitVars, rebuildVars, runVars, fuzzyVars, labelVars, buildVars, configVars, exportVars, cooldownVars, idVars, uiVars, qtyVars>>)
    \/ (Poll /\ UNCHANGED <<splitVars, rebuildVars, runVars, fuzzyVars, labelVars, buildVars, configVars, exportVars, cooldownVars, idVars, uiVars, qtyVars>>)
    \/ (Sleep /\ UNCHANGED <<splitVars, rebuildVars, runVars, fuzzyVars, labelVars, buildVars, configVars, exportVars, cooldownVars, idVars, uiVars, qtyVars>>)

SpecPoll == InitPollOnly /\ [][NextPoll]_vars

\* the thread that polls is scheduled, a request returns or raises within its
\* timeout, and a sleep ends
SpecPollFair ==
    /\ SpecPoll
    /\ WF_vars(LoopCondition /\ UNCHANGED <<splitVars, rebuildVars, runVars, fuzzyVars, labelVars, buildVars, configVars, exportVars, cooldownVars, idVars, uiVars, qtyVars>>)
    /\ WF_vars(Poll /\ UNCHANGED <<splitVars, rebuildVars, runVars, fuzzyVars, labelVars, buildVars, configVars, exportVars, cooldownVars, idVars, uiVars, qtyVars>>)
    /\ WF_vars(Sleep /\ UNCHANGED <<splitVars, rebuildVars, runVars, fuzzyVars, labelVars, buildVars, configVars, exportVars, cooldownVars, idVars, uiVars, qtyVars>>)

InitQtyOnly ==
    /\ InitQty
    /\ InitSplitIdle
    /\ InitRebuildIdle
    /\ InitRunIdle
    /\ InitFuzzyIdle
    /\ InitLabelIdle
    /\ InitBuildIdle
    /\ InitConfigIdle
    /\ InitExportIdle
    /\ InitCooldownIdle
    /\ InitIdsIdle
    /\ InitUiIdle
    /\ InitPollIdle

NextQty ==
    \/ (ReadQtyRow /\ UNCHANGED <<splitVars, rebuildVars, runVars, fuzzyVars, labelVars, buildVars, configVars, exportVars, cooldownVars, idVars, uiVars, pollVars>>)
    \/ (EndOfRows /\ UNCHANGED <<splitVars, rebuildVars, runVars, fuzzyVars, labelVars, buildVars, configVars, exportVars, cooldownVars, idVars, uiVars, pollVars>>)
    \/ (GridRow /\ UNCHANGED <<splitVars, rebuildVars, runVars, fuzzyVars, labelVars, buildVars, configVars, exportVars, cooldownVars, idVars, uiVars, pollVars>>)
    \/ (SubmitTasks /\ UNCHANGED <<splitVars, rebuildVars, runVars, fuzzyVars, labelVars, buildVars, configVars, exportVars, cooldownVars, idVars, uiVars, pollVars>>)

SpecQty == InitQtyOnly /\ [][NextQty]_vars

=============================================================================
